---- MODULE Spec2Model ----
(***************************************************************************)
(* A model of the picker-wheel controller (src/src/pickers/                *)
(* picker_handler.py) and of the multi-step navigation sequencer           *)
(* (src/src/navigation/navigator.py, src/src/core/session_manager.py).     *)
(*                                                                         *)
(* Python strings are sequences of one-character strings, so that          *)
(* strip/isdigit/int/lower/upper and slicing are computed, not assumed.    *)
(* A picker target that the code holds as an int is written as its decimal *)
(* string: int(int(s)) = int(s).  Distance factors are in hundredths       *)
(* (0.35 is 35, 2.0 is 200).                                               *)
(***************************************************************************)
EXTENDS Integers, Sequences, FiniteSets, TLC

(***************************************************************************)
(* Python string primitives                                                *)
(***************************************************************************)
DigitChars == <<"0", "1", "2", "3", "4", "5", "6", "7", "8", "9">>

UpperChars == <<"A", "B", "C", "D", "E", "F", "G", "H", "I", "J", "K", "L", "M",
                "N", "O", "P", "Q", "R", "S", "T", "U", "V", "W", "X", "Y", "Z">>

LowerChars == <<"a", "b", "c", "d", "e", "f", "g", "h", "i", "j", "k", "l", "m",
                "n", "o", "p", "q", "r", "s", "t", "u", "v", "w", "x", "y", "z">>

SpaceChars == {" ", "\t", "\n"}

\* every character the model's strings are made of
Chars ==
    {DigitChars[i] : i \in 1..10} \cup {UpperChars[i] : i \in 1..26}
    \cup {LowerChars[i] : i \in 1..26} \cup SpaceChars \cup {"+", "-", ":", ",", ";"}

IsDigitChar(c) == \E i \in 1..10 : DigitChars[i] = c

DigitValOf == [c \in {DigitChars[i] : i \in 1..10} |-> (CHOOSE i \in 1..10 : DigitChars[i] = c) - 1]

DigitVal(c) == DigitValOf[c]

IsUpperChar(c) == \E i \in 1..26 : UpperChars[i] = c

IsLowerChar(c) == \E i \in 1..26 : LowerChars[i] = c

LowerOf ==
    [c \in Chars |-> IF IsUpperChar(c) THEN LowerChars[CHOOSE i \in 1..26 : UpperChars[i] = c] ELSE c]

UpperOf ==
    [c \in Chars |-> IF IsLowerChar(c) THEN UpperChars[CHOOSE i \in 1..26 : LowerChars[i] = c] ELSE c]

LowerChar(c) == LowerOf[c]

UpperChar(c) == UpperOf[c]

\* str.lower()
lower(s) == [i \in 1..Len(s) |-> LowerChar(s[i])]

\* str.upper()
upper(s) == [i \in 1..Len(s) |-> UpperChar(s[i])]

\* str.title(): a letter that follows a non-letter is upper-cased, any other letter lower-cased
title(s) ==
    [i \in 1..Len(s) |->
        IF i = 1 \/ ~(IsUpperChar(s[i - 1]) \/ IsLowerChar(s[i - 1]))
        THEN UpperChar(s[i]) ELSE LowerChar(s[i])]

\* str.isdigit(): non-empty and every character a digit
isdigit(s) == Len(s) > 0 /\ \A i \in 1..Len(s) : IsDigitChar(s[i])

RECURSIVE lstrip(_)
lstrip(s) == IF s # <<>> /\ Head(s) \in SpaceChars THEN lstrip(Tail(s)) ELSE s

RECURSIVE rstrip(_)
rstrip(s) == IF s # <<>> /\ s[Len(s)] \in SpaceChars THEN rstrip(SubSeq(s, 1, Len(s) - 1)) ELSE s

\* str.strip()
strip(s) == rstrip(lstrip(s))

\* s[:n]
prefix(s, n) == SubSeq(s, 1, IF Len(s) < n THEN Len(s) ELSE n)

RECURSIVE DigitsValue(_)
DigitsValue(s) == IF s = <<>> THEN 0 ELSE 10 * DigitsValue(SubSeq(s, 1, Len(s) - 1)) + DigitVal(s[Len(s)])

\* int(s): surrounding whitespace and one sign are accepted; anything else is a ValueError
pyint(s) ==
    LET t == strip(s)
        signed == t # <<>> /\ t[1] \in {"+", "-"}
        d == IF signed THEN Tail(t) ELSE t
    IN  IF isdigit(d)
        THEN [ok |-> TRUE, val |-> IF signed /\ t[1] = "-" THEN 0 - DigitsValue(d) ELSE DigitsValue(d)]
        ELSE [ok |-> FALSE, val |-> 0]

Abs(n) == IF n < 0 THEN 0 - n ELSE n

Min2(a, b) == IF a < b THEN a ELSE b

Max2(a, b) == IF a > b THEN a ELSE b

(***************************************************************************)
(* calendar.month_name and PickerHandler.MONTH2INT                         *)
(***************************************************************************)
MonthNames ==
    << <<"J", "a", "n", "u", "a", "r", "y">>,
       <<"F", "e", "b", "r", "u", "a", "r", "y">>,
       <<"M", "a", "r", "c", "h">>,
       <<"A", "p", "r", "i", "l">>,
       <<"M", "a", "y">>,
       <<"J", "u", "n", "e">>,
       <<"J", "u", "l", "y">>,
       <<"A", "u", "g", "u", "s", "t">>,
       <<"S", "e", "p", "t", "e", "m", "b", "e", "r">>,
       <<"O", "c", "t", "o", "b", "e", "r">>,
       <<"N", "o", "v", "e", "m", "b", "e", "r">>,
       <<"D", "e", "c", "e", "m", "b", "e", "r">> >>

\* the dict maps the name at position i to i; iteration is in this order
MONTH2INT(i) == i

\* month_name.lower() and month_name.lower()[:3] of every key of MONTH2INT
LowerMonthNames == [i \in 1..12 |-> lower(MonthNames[i])]

LowerMonthAbbrs == [i \in 1..12 |-> prefix(lower(MonthNames[i]), 3)]

\* PickerHandler._to_key
to_key(txt) ==
    LET t == strip(txt)
        lt == lower(t)
        full == {i \in 1..12 : LowerMonthNames[i] = lt}
        abbr == {i \in 1..12 : LowerMonthAbbrs[i] = prefix(lt, 3)}
        First(S) == CHOOSE i \in S : \A j \in S : i <= j
    IN  IF isdigit(t) THEN DigitsValue(t)
        ELSE IF full # {} THEN MONTH2INT(First(full))
        ELSE IF abbr # {} THEN MONTH2INT(First(abbr))
        ELSE 0

\* PickerHandler._values_match
values_match(current_value, target_value, value_type) ==
    IF value_type \in {"day", "year", "hour", "minute"}
    THEN pyint(current_value).ok /\ pyint(target_value).ok
         /\ pyint(current_value).val = pyint(target_value).val
    ELSE IF value_type = "month"
    THEN LET current_lower == lower(current_value)
             target_lower == lower(target_value)
         IN  \/ current_lower = target_lower
             \/ /\ Len(current_lower) >= 3
                /\ Len(target_lower) >= 3
                /\ prefix(current_lower, 3) = prefix(target_lower, 3)
    ELSE IF value_type = "period"
    THEN upper(current_value) = upper(target_value)
    ELSE FALSE

(***************************************************************************)
(* The wheels and the values the model lets them show                      *)
(***************************************************************************)
Str2023 == <<"2", "0", "2", "3">>
Str2022 == <<"2", "0", "2", "2">>
Str2019 == <<"2", "0", "1", "9">>
StrMarch == MonthNames[3]
StrMar == <<"M", "a", "r">>
StrApril == MonthNames[4]
StrOctober == MonthNames[10]
Str15 == <<"1", "5">>
Str16 == <<"1", "6">>
Str3 == <<"3">>
Str9 == <<"9">>
Str09 == <<"0", "9">>
Str2 == <<"2">>
Str30 == <<"3", "0">>
Str05 == <<"0", "5">>
StrAM == <<"A", "M">>
StrPM == <<"P", "M">>
Strpm == <<"p", "m">>

ValueTypes == {"year", "month", "day", "hour", "minute", "period"}

\* the target each wheel is driven to
TargetOf(vt) ==
    CASE vt = "year" -> Str2023
      [] vt = "month" -> StrMarch
      [] vt = "day" -> Str15
      [] vt = "hour" -> Str9
      [] vt = "minute" -> Str30
      [] vt = "period" -> StrPM

\* the non-empty values wheel.get_attribute("value") may return when
\* select_value_fast is called on its own: the target (in another spelling
\* where the class has one), and one or two other values, near and far
WheelValues(vt) ==
    CASE vt = "year" -> {Str2023, Str2022, Str2019}
      [] vt = "month" -> {StrMar, StrApril, StrOctober}
      [] vt = "day" -> {Str15, Str16, Str3}
      [] vt = "hour" -> {Str09, Str2}
      [] vt = "minute" -> {Str30, Str05}
      [] vt = "period" -> {Strpm, StrAM}

\* the values the wheels show while pick_date / pick_time drive them
PickWheelValues(vt) ==
    CASE vt = "year" -> {Str2023, Str2019}
      [] vt = "month" -> {StrMar, StrOctober}
      [] vt = "day" -> {Str15, Str3}
      [] vt = "hour" -> {Str09, Str2}
      [] vt = "minute" -> {Str30, Str05}
      [] vt = "period" -> {Strpm, StrAM}

\* every outcome of wheel.get_attribute("value"): it raises, returns None, or
\* returns a string.  select_value_fast treats None and "" alike (both are
\* falsy), so "" is only drawn in the fallback loops of pick_date / pick_time,
\* which tell the two apart.
ReadRaises == [raises |-> TRUE, none |-> FALSE, value |-> <<>>]

ReadNone == [raises |-> FALSE, none |-> TRUE, value |-> <<>>]

ReadValue(v) == [raises |-> FALSE, none |-> FALSE, value |-> v]

ValuesShown(entry, vt) == IF entry = "select" THEN WheelValues(vt) ELSE PickWheelValues(vt)

ReadOutcomes(entry, vt) == {ReadRaises, ReadNone} \cup {ReadValue(v) : v \in ValuesShown(entry, vt)}

FallbackReadOutcomes(entry, vt) == ReadOutcomes(entry, vt) \cup {ReadValue(<<>>)}

\* Python truthiness of a value that was read
truthy(r) == ~r.raises /\ ~r.none /\ r.value # <<>>

(***************************************************************************)
(* PickerHandler._scroll_wheel                                             *)
(***************************************************************************)
\* the swipe duration chosen from the distance factor
swipe_duration(distance_factor) ==
    IF distance_factor < 10 THEN 100
    ELSE IF distance_factor < 30 THEN 150
    ELSE IF distance_factor < 70 THEN 200
    ELSE 300

\* a faulty variant of scroll_wheel, for the sensitivity of C4: the swipe is made twice
scroll_wheel_twice(w, direction, distance_factor) ==
    [issued |-> 2, wheel |-> w, direction |-> direction, factor |-> distance_factor,
     duration |-> swipe_duration(distance_factor)]

NoGesture == [issued |-> 0, wheel |-> "none", direction |-> "none", factor |-> 0, duration |-> 0]

\* one call of _scroll_wheel: at most one driver.swipe, on the wheel passed in.
\* The call never raises (its body is one try/except) and its callers ignore
\* what it returns, so whether the driver carried the swipe out shows only in
\* the later reads of the wheel, which the model leaves unconstrained.
scroll_wheel(w, direction, distance_factor) ==
    [issued |-> 1, wheel |-> w, direction |-> direction, factor |-> distance_factor,
     duration |-> swipe_duration(distance_factor)]

(***************************************************************************)
(* PickerHandler.select_value_fast: the pieces of one loop iteration       *)
(***************************************************************************)
max_attempts == 25

history_len == 5

\* target_key as computed before the loop
target_key_of(target_value, value_type) ==
    IF value_type = "month" THEN to_key(target_value)
    ELSE IF pyint(target_value).ok THEN pyint(target_value).val
    ELSE to_key(target_value)

\* previous_values.append(current_key), keeping the last five
push_history(previous_values, current_key) ==
    LET h == Append(previous_values, current_key)
    IN  IF Len(h) > history_len THEN Tail(h) ELSE h

\* the last four observed keys hold at most two distinct values
oscillation(previous_values) ==
    /\ Len(previous_values) >= 4
    /\ Cardinality({previous_values[i] : i \in (Len(previous_values) - 3)..Len(previous_values)}) <= 2

\* 'up' when the target key is above the current key
direction_of_flipped(target_key, current_key) == IF target_key > current_key THEN "down" ELSE "up"

\* a faulty variant of direction_of, for C40: equal keys scroll up
direction_of_up_on_tie(target_key, current_key) == IF target_key >= current_key THEN "up" ELSE "down"

direction_of(target_key, current_key) == IF target_key > current_key THEN "up" ELSE "down"

\* a faulty variant of enters_micro, for C28: every value class
enters_micro_any_class(value_type, distance) == distance <= 1

\* micro-adjustment mode is switched on for the year wheel within one unit
enters_micro(value_type, distance) == value_type = "year" /\ distance <= 1

\* a faulty variant of micro_factor, for C29: the larger step comes at n = 8
micro_factor_from_8th(n) ==
    IF n >= 8 THEN 80
    ELSE IF n <= 2 THEN 50
    ELSE IF n <= 4 THEN 35
    ELSE 25

\* the factor of the n-th micro-adjustment (n already incremented)
micro_factor(n) ==
    IF n > 8 THEN 80
    ELSE IF n <= 2 THEN 50
    ELSE IF n <= 4 THEN 35
    ELSE 25

oscillation_factor == 50

\* the ordinary distance tier of each value class
tier_factor(value_type, distance) ==
    CASE value_type = "year" ->
            IF distance > 10 THEN 200
            ELSE IF distance > 5 THEN 150
            ELSE IF distance > 2 THEN 70
            ELSE 50
      [] value_type = "month" ->
            IF distance > 6 THEN 200
            ELSE IF distance > 3 THEN 150
            ELSE IF distance > 1 THEN 70
            ELSE 50
      [] value_type \in {"day", "hour"} ->
            IF distance > 15 THEN 200
            ELSE IF distance > 8 THEN 150
            ELSE IF distance > 4 THEN 70
            ELSE 50
      [] value_type = "minute" ->
            IF distance > 30 THEN 200
            ELSE IF distance > 15 THEN 150
            ELSE IF distance > 5 THEN 70
            ELSE 50
      [] OTHER -> Min2(200, Max2(50, distance * 10))

\* a faulty variant of distance_factor_of, for C37: an oscillation overrides
\* the micro-adjustment step, and the mode is left when the distance grows
distance_factor_of_mode_left(value_type, distance, micro, micro_count, osc) ==
    IF osc THEN oscillation_factor
    ELSE IF micro /\ distance <= 1 THEN micro_factor(micro_count)
    ELSE tier_factor(value_type, distance)

\* the factor chosen once the value was read and did not match
distance_factor_of(value_type, distance, micro, micro_count, osc) ==
    IF micro THEN micro_factor(micro_count)
    ELSE IF osc THEN oscillation_factor
    ELSE tier_factor(value_type, distance)

\* a faulty variant of blind_direction, for C30: always by the parity of attempts
blind_direction_by_parity(value_type, target_key, attempts, raised) ==
    IF attempts % 2 = 0 THEN "up" ELSE "down"

\* the direction of a scroll made without a readable value
blind_direction(value_type, target_key, attempts, raised) ==
    IF ~raised /\ value_type = "year"
    THEN (IF target_key > 2020 THEN "up" ELSE "down")
    ELSE (IF attempts % 2 = 0 THEN "up" ELSE "down")

blind_factor == 100

(***************************************************************************)
(* State                                                                   *)
(***************************************************************************)
VARIABLES
    pc,                       \* where the picker code is: "idle", "loop", "final", "returned", "fallback", "period_toggle", "done"
    op,                       \* the entry point running: "none", "select", "pick_date", "pick_time"
    wheel,                    \* the wheel being driven (named by its value class), or "none"
    value_type,               \* select_value_fast: the value_type argument
    target_value,             \* select_value_fast: the target_value argument
    target_key,               \* select_value_fast: target_key
    attempts,                 \* select_value_fast: attempts
    previous_values,          \* select_value_fast: previous_values
    using_micro_adjustment,   \* select_value_fast: using_micro_adjustment
    micro_adjustment_count,   \* select_value_fast: micro_adjustment_count
    sel_result,               \* what select_value_fast returned: "none", "true", "false"
    last,                     \* what the latest loop iteration or final check read and did
    gestures,                 \* _scroll_wheel calls made on the current wheel since select_value_fast was entered
    match_seen,               \* some read of the current call equalled the target (observed for C3 and C5)
    wheels_found,             \* len(picker_wheels)
    using_period,             \* pick_time: using_period
    wheel_set,                \* pick_date / pick_time: year_set, month_set, day_set, hour_set, minute_set, period_set
    fallback_i,               \* iterations of the current fallback loop already run
    pick_args,                \* the arguments pick_date / pick_time were called with
    pick_result               \* what pick_date / pick_time returned: "none", "true", "false", "raised"

picker_vars ==
    <<pc, op, wheel, value_type, target_value, target_key, attempts, previous_values,
      using_micro_adjustment, micro_adjustment_count, sel_result, last, gestures,
      match_seen, wheels_found, using_period, wheel_set, fallback_i, pick_args,
      pick_result>>

VARIABLES
    driver,                   \* SessionManager.driver is set (connect_to_app succeeded)
    connect_calls,            \* calls of fetcher.connect() so far
    nav_pc,                   \* navigate_multi_step: "idle", "stepping", "done"
    steps_total,              \* len(steps)
    step_i,                   \* the loop index i
    results,                  \* results, one [error, why] per entry
    checked,                  \* the step indices whose session check was made, in order
    navigated,                \* the step indices navigate() was called for, in order
    connects_at_start,        \* connect_calls when navigate_multi_step was entered
    last_step                 \* what the latest navigate() call did

nav_vars ==
    <<driver, connect_calls, nav_pc, steps_total, step_i, results, checked, navigated,
      connects_at_start, last_step>>

VARIABLES
    txt_pc,                   \* split_navigation_steps: "idle", "done"
    instruction,              \* the instruction argument
    split_steps               \* the list returned

text_vars == <<txt_pc, instruction, split_steps>>

VARIABLES
    find_pc,                  \* find_element: "idle", "standard", "popup", "positional", "done", "clicked"
    identifier,               \* the identifier argument
    screen,                   \* the elements on screen, in document order
    clean_identifier,         \* find_element: clean_identifier
    find_i,                   \* standard strategies already tried
    queries,                  \* the driver queries issued so far, in order
    found,                    \* what find_element returned
    click_outcome,            \* the caller's click on the handle: "none", "ok", "raised"
    taps                      \* taps and clicks the driver carried out

finder_vars ==
    <<find_pc, identifier, screen, clean_identifier, find_i, queries, found, click_outcome, taps>>

\* element_parser: the snapshot handed in, the inventory of two extractions
\* of it, and what detect_popup_state returned
VARIABLES
    parse_pc,
    page_source,
    platform,
    inventory,
    inventory_again,
    popup_state

parser_vars == <<parse_pc, page_source, platform, inventory, inventory_again, popup_state>>

\* confirm_selection / cancel_selection: the buttons on screen, the driver
\* lookups that fail, the lookups and clicks made, and the value returned
VARIABLES
    btn_pc,
    btn_op,
    buttons,
    failing,
    lookups,
    clicks,
    btn_result

button_vars == <<btn_pc, btn_op, buttons, failing, lookups, clicks, btn_result>>

vars == <<picker_vars, nav_vars, text_vars, finder_vars, parser_vars, button_vars>>

NoRead == ReadNone

\* kind: "none", "match", "scroll" (value read, no match), "blind" (no value), "final"
NoIter ==
    [kind |-> "none", read |-> NoRead, current_key |-> 0, distance |-> 0,
     oscillation |-> FALSE, micro |-> FALSE, matched |-> FALSE, gesture |-> NoGesture,
     micro_steps |-> 0, micro_factor_seen |-> 0, prev_micro_factor |-> 0]

NoArgs == [w \in ValueTypes |-> <<>>]

PickerInit ==
    /\ pc = "idle"
    /\ op = "none"
    /\ wheel = "none"
    /\ value_type = "none"
    /\ target_value = <<>>
    /\ target_key = 0
    /\ attempts = 0
    /\ previous_values = <<>>
    /\ using_micro_adjustment = FALSE
    /\ micro_adjustment_count = 0
    /\ sel_result = "none"
    /\ last = NoIter
    /\ gestures = 0
    /\ match_seen = FALSE
    /\ wheels_found = 0
    /\ using_period = FALSE
    /\ wheel_set = [w \in ValueTypes |-> FALSE]
    /\ fallback_i = 0
    /\ pick_args = NoArgs
    /\ pick_result = "none"

NoStep ==
    [fetches |-> 0, llm_calls |-> 0, ui_actions |-> 0, fetch_env |-> <<>>, response |-> "none",
     raw |-> FALSE, failed |-> FALSE, returned |-> "none",
     picker |-> "not_called", prev_picker |-> "not_called",
     action |-> "none", find |-> "none"]

NavInit ==
    /\ driver = FALSE
    /\ connect_calls = 0
    /\ nav_pc = "idle"
    /\ steps_total = 0
    /\ step_i = 0
    /\ results = <<>>
    /\ checked = <<>>
    /\ navigated = <<>>
    /\ connects_at_start = 0
    /\ last_step = NoStep

TextInit ==
    /\ txt_pc = "idle"
    /\ instruction = <<>>
    /\ split_steps = <<>>

\* kind: "none" (not returned yet), "null" (None), "real", "dummy"
NoFound == [kind |-> "none", via |-> "none", index |-> 0]

FindInit ==
    /\ find_pc = "idle"
    /\ identifier = <<>>
    /\ screen = <<>>
    /\ clean_identifier = <<>>
    /\ find_i = 0
    /\ queries = <<>>
    /\ found = NoFound
    /\ click_outcome = "none"
    /\ taps = 0

NoInventory == [kind |-> "none", lines |-> <<>>]

\* `bounds = None`
NoBounds == [parsed |-> FALSE, x |-> 0, y |-> 0, width |-> 0, height |-> 0]

NoPopupState == [has_popup |-> FALSE, popup_type |-> "none", bounds |-> NoBounds, error |-> FALSE]

ParseInit ==
    /\ parse_pc = "idle"
    /\ page_source = <<>>
    /\ platform = "ios"
    /\ inventory = NoInventory
    /\ inventory_again = NoInventory
    /\ popup_state = NoPopupState

ButtonInit ==
    /\ btn_pc = "idle"
    /\ btn_op = "none"
    /\ buttons = <<>>
    /\ failing = {}
    /\ lookups = <<>>
    /\ clicks = <<>>
    /\ btn_result = "none"

Init == PickerInit /\ NavInit /\ TextInit /\ FindInit /\ ParseInit /\ ButtonInit

(***************************************************************************)
(* PickerHandler.select_value_fast                                         *)
(***************************************************************************)
\* entering select_value_fast(wheel, target, vt): the locals before the loop
EnterSelect(vt, target) ==
    /\ pc' = "loop"
    /\ wheel' = vt
    /\ value_type' = vt
    /\ target_value' = target
    /\ target_key' = target_key_of(target, vt)
    /\ attempts' = 0
    /\ previous_values' = <<>>
    /\ using_micro_adjustment' = FALSE
    /\ micro_adjustment_count' = 0
    /\ sel_result' = "none"
    /\ last' = NoIter
    /\ gestures' = 0
    /\ match_seen' = FALSE

\* a direct call of select_value_fast on one wheel
\* the targets select_value_fast is called with on its own: one per value
\* class, and both periods
Targets(vt) == IF vt = "period" THEN {StrPM, StrAM} ELSE {TargetOf(vt)}

StartSelect ==
    /\ UNCHANGED <<nav_vars, text_vars, finder_vars, parser_vars, button_vars>>
    /\ pc = "idle"
    /\ \E vt \in ValueTypes :
        \E target \in Targets(vt) :
            EnterSelect(vt, target)
    /\ op' = "select"
    /\ UNCHANGED <<wheels_found, using_period, wheel_set, fallback_i, pick_args, pick_result>>

\* the read raised (inner except) or returned no value (else branch): a scroll
\* in a guessed direction
blind_iteration(r) ==
    [kind |-> "blind", read |-> r, current_key |-> 0, distance |-> 0,
     oscillation |-> FALSE, micro |-> using_micro_adjustment, matched |-> FALSE,
     history |-> previous_values, micro_count |-> micro_adjustment_count,
     gesture |-> scroll_wheel(wheel, blind_direction(value_type, target_key, attempts, r.raises),
                              blind_factor)]

\* the read matched the target: return True, nothing is scrolled
matched_iteration(r) ==
    [kind |-> "match", read |-> r, current_key |-> to_key(r.value), distance |-> 0,
     oscillation |-> FALSE, micro |-> using_micro_adjustment, matched |-> TRUE,
     history |-> push_history(previous_values, to_key(r.value)),
     micro_count |-> micro_adjustment_count, gesture |-> NoGesture]

\* the read did not match: direction, step size and one scroll
scroll_iteration(r) ==
    LET current_key == to_key(r.value)
        history == push_history(previous_values, current_key)
        distance == Abs(target_key - current_key)
        osc == oscillation(history)
        micro == using_micro_adjustment \/ enters_micro(value_type, distance)
        n == IF micro THEN micro_adjustment_count + 1 ELSE micro_adjustment_count
    IN  [kind |-> "scroll", read |-> r, current_key |-> current_key,
         distance |-> distance, oscillation |-> osc, micro |-> micro,
         matched |-> FALSE, history |-> history,
         micro_count |-> IF micro /\ n > 8 THEN 0 ELSE n,
         gesture |-> scroll_wheel(wheel, direction_of(target_key, current_key),
                                  distance_factor_of(value_type, distance, micro, n, osc))]

\* faulty variants of loop_body, for the sensitivity of C3 and C5: the match is noticed only after the
\* scroll was made; the keys are compared instead of the values
loop_body_scrolls_first(r) ==
    IF ~truthy(r) THEN blind_iteration(r)
    ELSE IF values_match(r.value, target_value, value_type)
    THEN [scroll_iteration(r) EXCEPT !.kind = "match", !.matched = TRUE]
    ELSE scroll_iteration(r)

loop_body_compares_keys(r) ==
    IF ~truthy(r) THEN blind_iteration(r)
    ELSE IF to_key(r.value) = target_key THEN matched_iteration(r)
    ELSE scroll_iteration(r)

\* what one pass through the while body computes from the read r
loop_body(r) ==
    IF ~truthy(r) THEN blind_iteration(r)
    ELSE IF values_match(r.value, target_value, value_type) THEN matched_iteration(r)
    ELSE scroll_iteration(r)

\* whether a value that was read equals the target under the comparison of
\* the value class (a matching read)
read_matches(r, target, vt) == truthy(r) /\ values_match(r.value, target, vt)

\* the record kept of an iteration; prev is the record of the iteration
\* before it. micro_steps counts the micro-adjustments of the call so far,
\* micro_factor_seen is the factor of the latest of them and
\* prev_micro_factor that of the latest before this iteration
iter_record(b, prev) ==
    [kind |-> b.kind, read |-> b.read, current_key |-> b.current_key, distance |-> b.distance,
     oscillation |-> b.oscillation, micro |-> b.micro, matched |-> b.matched, gesture |-> b.gesture,
     micro_steps |-> IF b.kind = "scroll" /\ b.micro THEN prev.micro_steps + 1 ELSE prev.micro_steps,
     micro_factor_seen |-> IF b.kind = "scroll" /\ b.micro THEN b.gesture.factor
                           ELSE prev.micro_factor_seen,
     prev_micro_factor |-> prev.micro_factor_seen]

\* one iteration of `while attempts < max_attempts`
SelectIter ==
    /\ UNCHANGED <<nav_vars, text_vars, finder_vars, parser_vars, button_vars>>
    /\ pc = "loop"
    /\ attempts < max_attempts
    /\ \E r \in ReadOutcomes(op, value_type) :
        \E b \in {loop_body(r)} :
            /\ last' = iter_record(b, last)
            /\ previous_values' = b.history
            /\ using_micro_adjustment' = b.micro
            /\ micro_adjustment_count' = b.micro_count
            /\ gestures' = gestures + b.gesture.issued
            /\ match_seen' = (match_seen \/ read_matches(r, target_value, value_type))
            /\ IF b.matched
               THEN /\ pc' = "returned"
                    /\ sel_result' = "true"
                    /\ attempts' = attempts
               ELSE /\ pc' = IF attempts + 1 < max_attempts THEN "loop" ELSE "final"
                    /\ sel_result' = sel_result
                    /\ attempts' = attempts + 1
    /\ UNCHANGED <<op, wheel, value_type, target_value, target_key, wheels_found,
                   using_period, wheel_set, fallback_i, pick_args, pick_result>>

\* the check made after the loop ran out of attempts
final_check(r) == truthy(r) /\ values_match(r.value, target_value, value_type)

SelectFinal ==
    /\ UNCHANGED <<nav_vars, text_vars, finder_vars, parser_vars, button_vars>>
    /\ pc = "final"
    /\ \E r \in ReadOutcomes(op, value_type) :
        /\ last' = [NoIter EXCEPT !.kind = "final", !.read = r, !.matched = final_check(r)]
        /\ match_seen' = (match_seen \/ read_matches(r, target_value, value_type))
        /\ sel_result' = IF final_check(r) THEN "true" ELSE "false"
    /\ pc' = "returned"
    /\ UNCHANGED <<op, wheel, value_type, target_value, target_key, attempts, previous_values,
                   using_micro_adjustment, micro_adjustment_count, gestures,
                   wheels_found, using_period, wheel_set, fallback_i, pick_args, pick_result>>

NextSelect == StartSelect \/ SelectIter \/ SelectFinal

SpecSelect == Init /\ [][NextSelect]_vars

(***************************************************************************)
(* PickerHandler.pick_date and PickerHandler.pick_time                     *)
(***************************************************************************)
MaxWheels == 3

Strmarch == <<"m", "a", "r", "c", "h">>
StrX == <<"x">>

\* str(n) for n >= 0
RECURSIVE itoa(_)
itoa(n) == IF n < 10 THEN <<DigitChars[n + 1]>> ELSE itoa(n \div 10) \o <<DigitChars[(n % 10) + 1]>>

DateArgs ==
    {[NoArgs EXCEPT !["day"] = d, !["month"] = Strmarch, !["year"] = y] :
        d \in {Str15, StrX}, y \in {Str2023, StrX}}

TimeArgs ==
    {[NoArgs EXCEPT !["hour"] = h, !["minute"] = m, !["period"] = p] :
        h \in {Str9, StrX}, m \in {Str30, StrX}, p \in {<<>>, StrPM}}

\* the targets after "Convert targets to consistent format": int(...) for the
\* numeric ones, title() for the month, the period as given
converted_target(args, w) ==
    IF w \in {"day", "year", "hour", "minute"} THEN itoa(pyint(args[w]).val)
    ELSE IF w = "month" THEN title(args[w])
    ELSE args[w]

\* a numeric argument that int() rejects makes the pick return False at once
format_ok(entry, args) ==
    IF entry = "pick_date" THEN pyint(args["day"]).ok /\ pyint(args["year"]).ok
    ELSE pyint(args["hour"]).ok /\ pyint(args["minute"]).ok

\* faulty variants of the three definitions below, for C8, C6 and C7: the period
\* wheel is always asked for; the month is driven before the year; one wheel
\* set is enough
required_wheels_always3(entry, period_given) == 3

next_wheel_month_first(entry, w, period_wheel) ==
    IF entry = "pick_date"
    THEN CASE w = "none" -> "month"
           [] w = "month" -> "year"
           [] w = "year" -> "day"
           [] OTHER -> "none"
    ELSE CASE w = "none" -> "hour"
           [] w = "hour" -> "minute"
           [] w = "minute" -> IF period_wheel THEN "period" ELSE "none"
           [] OTHER -> "none"

all_set_any(entry, ws) ==
    IF entry = "pick_date" THEN ws["year"] \/ ws["month"] \/ ws["day"]
    ELSE ws["hour"] \/ ws["minute"] \/ ws["period"]

\* required_wheels
required_wheels(entry, period_given) == IF entry = "pick_time" /\ ~period_given THEN 2 ELSE 3

\* the order in which the wheels are driven; "none" after the last one
next_wheel(entry, w, period_wheel) ==
    IF entry = "pick_date"
    THEN CASE w = "none" -> "year"
           [] w = "year" -> "month"
           [] w = "month" -> "day"
           [] OTHER -> "none"
    ELSE CASE w = "none" -> "hour"
           [] w = "hour" -> "minute"
           [] w = "minute" -> IF period_wheel THEN "period" ELSE "none"
           [] OTHER -> "none"

\* `if year_set and month_set and day_set` / `if hour_set and minute_set and period_set`
all_set(entry, ws) ==
    IF entry = "pick_date" THEN ws["year"] /\ ws["month"] /\ ws["day"]
    ELSE ws["hour"] /\ ws["minute"] /\ ws["period"]

select_unchanged ==
    UNCHANGED <<value_type, target_value, target_key, attempts, previous_values,
                using_micro_adjustment, micro_adjustment_count, sel_result, match_seen>>

\* the pick returns without driving a wheel
ReturnEarly ==
    /\ pc' = "done"
    /\ pick_result' = "false"
    /\ UNCHANGED <<wheel, last, gestures>>
    /\ select_unchanged

StartPickDate ==
    /\ UNCHANGED <<nav_vars, text_vars, finder_vars, parser_vars, button_vars>>
    /\ pc = "idle"
    /\ op' = "pick_date"
    /\ using_period' = FALSE
    /\ wheel_set' = [w \in ValueTypes |-> FALSE]
    /\ \E args \in DateArgs, n \in 0..MaxWheels :
        /\ pick_args' = args
        /\ IF ~format_ok("pick_date", args)
           THEN wheels_found' = 0 /\ ReturnEarly
           ELSE /\ wheels_found' = n
                /\ IF n < required_wheels("pick_date", FALSE)
                   THEN ReturnEarly
                   ELSE /\ \E w \in {next_wheel("pick_date", "none", FALSE)} :
                             EnterSelect(w, converted_target(args, w))
                        /\ pick_result' = "none"
    /\ UNCHANGED fallback_i

StartPickTime ==
    /\ UNCHANGED <<nav_vars, text_vars, finder_vars, parser_vars, button_vars>>
    /\ pc = "idle"
    /\ op' = "pick_time"
    /\ \E args \in TimeArgs, period_given \in BOOLEAN, n \in 0..MaxWheels :
        /\ period_given = (args["period"] # <<>>)
        /\ pick_args' = args
        /\ using_period' = period_given
        \* period_set defaults to True
        /\ wheel_set' = [w \in ValueTypes |-> w = "period"]
        /\ IF ~format_ok("pick_time", args)
           THEN wheels_found' = 0 /\ ReturnEarly
           ELSE /\ wheels_found' = n
                /\ IF n < required_wheels("pick_time", period_given)
                   THEN ReturnEarly
                   ELSE /\ \E w \in {next_wheel("pick_time", "none", period_given)} :
                             EnterSelect(w, converted_target(args, w))
                        /\ pick_result' = "none"
    /\ UNCHANGED fallback_i

\* `x_set = self.select_value_fast(...)` followed by `if not x_set:`
AfterSelect ==
    /\ UNCHANGED <<nav_vars, text_vars, finder_vars, parser_vars, button_vars>>
    /\ pc = "returned"
    /\ op \in {"pick_date", "pick_time"}
    /\ wheel_set' = [wheel_set EXCEPT ![wheel] = (sel_result = "true")]
    /\ pc' = IF sel_result = "true" THEN "advance"
             ELSE IF wheel = "period" THEN "period_toggle"
             ELSE "fallback"
    /\ fallback_i' = 0
    /\ UNCHANGED <<op, wheel, last, gestures, wheels_found, using_period, pick_args, pick_result>>
    /\ select_unchanged

\* range(n) of the fallback loop of each wheel
\* a faulty variant of fallback_limit, for C39: one pass per value of the wheel
fallback_limit_per_value(w) ==
    CASE w = "year" -> 5
      [] w = "month" -> 12
      [] w = "day" -> 31
      [] w = "hour" -> 24
      [] w = "minute" -> 60

\* a faulty variant of fallback_limit, for C31: one pass more than the widest loop
fallback_limit_wide(w) == 31

fallback_limit(w) ==
    CASE w = "year" -> 5
      [] w = "month" -> 12
      [] w = "day" -> 15
      [] w = "hour" -> 12
      [] w = "minute" -> 30

\* the distance tiers of the fallback loops
fallback_tier(w, diff) ==
    CASE w = "year" ->
            IF diff > 10 THEN 200 ELSE IF diff > 5 THEN 150 ELSE IF diff > 2 THEN 100
            ELSE IF diff = 2 THEN 50 ELSE 30
      [] w = "month" ->
            IF diff > 6 THEN 200 ELSE IF diff > 3 THEN 150 ELSE IF diff > 1 THEN 100 ELSE 50
      [] w = "day" ->
            IF diff > 15 THEN 200 ELSE IF diff > 8 THEN 150 ELSE IF diff > 3 THEN 100
            ELSE IF diff > 1 THEN 50 ELSE 30
      [] w = "hour" ->
            IF diff > 6 THEN 200 ELSE IF diff > 3 THEN 150 ELSE IF diff > 1 THEN 100 ELSE 50
      [] w = "minute" ->
            IF diff > 30 THEN 200 ELSE IF diff > 15 THEN 150 ELSE IF diff > 5 THEN 100
            ELSE IF diff > 1 THEN 50 ELSE 15

\* the test that ends a fallback loop: `int(current) == target`, or for the
\* month wheel `current_month and self._values_match(...)`
fallback_read_matches(w, target, r) ==
    IF w = "month" THEN truthy(r) /\ values_match(r.value, target, "month")
    ELSE ~r.raises /\ ~r.none /\ pyint(r.value).ok /\ pyint(r.value).val = pyint(target).val

\* a faulty variant of fallback_body, for C38: the value is compared after
\* the scroll of the iteration
fallback_body_reads_after(w, target, r) ==
    IF w # "month" /\ r.raises THEN [outcome |-> "raised", gesture |-> NoGesture]
    ELSE [outcome |-> IF fallback_read_matches(w, target, r) THEN "set" ELSE "scrolled",
          gesture |-> scroll_wheel(w, "up", 100)]

\* one pass through a fallback loop body: outcome "set" (break), "scrolled",
\* or "raised" (the read is outside the try and its exception leaves the pick)
fallback_body(w, target, r) ==
    IF w = "month"
    THEN IF r.raises \/ r.none
         THEN [outcome |-> "scrolled", gesture |-> scroll_wheel(w, "up", 100)]
         ELSE IF truthy(r) /\ values_match(r.value, target, "month")
         THEN [outcome |-> "set", gesture |-> NoGesture]
         ELSE LET current_month_idx == to_key(r.value)
                  target_month_idx == to_key(target)
                  month_diff == Abs(target_month_idx - current_month_idx)
              IN  [outcome |-> "scrolled",
                   gesture |-> scroll_wheel(w, IF current_month_idx < target_month_idx THEN "up" ELSE "down",
                                            fallback_tier(w, month_diff))]
    ELSE IF r.raises
         THEN [outcome |-> "raised", gesture |-> NoGesture]
         ELSE IF r.none \/ ~pyint(r.value).ok
         THEN [outcome |-> "scrolled", gesture |-> scroll_wheel(w, "up", 100)]
         ELSE LET current == pyint(r.value).val
                  tgt == pyint(target).val
              IN  IF current = tgt
                  THEN [outcome |-> "set", gesture |-> NoGesture]
                  ELSE [outcome |-> "scrolled",
                        gesture |-> scroll_wheel(w, IF current < tgt THEN "up" ELSE "down",
                                                 fallback_tier(w, Abs(tgt - current)))]

fallback_record(r, b) ==
    [NoIter EXCEPT !.kind = "fallback", !.read = r, !.matched = (b.outcome = "set"),
                   !.gesture = b.gesture]

\* one iteration of the fallback loop of the current wheel
FallbackIter ==
    /\ UNCHANGED <<nav_vars, text_vars, finder_vars, parser_vars, button_vars>>
    /\ pc = "fallback"
    /\ fallback_i < fallback_limit(wheel)
    /\ \E r \in FallbackReadOutcomes(op, wheel) :
        \E b \in {fallback_body(wheel, target_value, r)} :
            /\ last' = fallback_record(r, b)
            /\ gestures' = gestures + b.gesture.issued
            /\ wheel_set' = [wheel_set EXCEPT ![wheel] = (b.outcome = "set")]
            /\ fallback_i' = IF b.outcome = "scrolled" THEN fallback_i + 1 ELSE fallback_i
            /\ pc' = CASE b.outcome = "raised" -> "done"
                       [] b.outcome = "set" -> "advance"
                       [] OTHER -> IF fallback_i + 1 < fallback_limit(wheel) THEN "fallback" ELSE "advance"
            /\ pick_result' = IF b.outcome = "raised" THEN "raised" ELSE pick_result
    /\ UNCHANGED <<op, wheel, wheels_found, using_period, pick_args>>
    /\ select_unchanged

\* the single toggle tried on the period wheel (r1, r2: the two reads)
period_toggle(w, target, r1, r2) ==
    IF r1.raises THEN [outcome |-> "raised", period_set |-> FALSE, gesture |-> NoGesture]
    ELSE IF truthy(r1) /\ upper(r1.value) # upper(target)
    THEN IF r2.raises
         THEN [outcome |-> "raised", period_set |-> FALSE,
               gesture |-> scroll_wheel(w, "up", 50)]
         ELSE [outcome |-> "scrolled",
               period_set |-> (truthy(r2) /\ upper(r2.value) = upper(target)),
               gesture |-> scroll_wheel(w, "up", 50)]
    ELSE [outcome |-> "skipped", period_set |-> FALSE, gesture |-> NoGesture]

PeriodToggle ==
    /\ UNCHANGED <<nav_vars, text_vars, finder_vars, parser_vars, button_vars>>
    /\ pc = "period_toggle"
    /\ \E r1 \in FallbackReadOutcomes(op, wheel), r2 \in FallbackReadOutcomes(op, wheel) :
        \E b \in {period_toggle(wheel, target_value, r1, r2)} :
            /\ last' = [NoIter EXCEPT !.kind = "toggle", !.read = r1, !.matched = b.period_set,
                                      !.gesture = b.gesture]
            /\ gestures' = gestures + b.gesture.issued
            /\ wheel_set' = [wheel_set EXCEPT ![wheel] = b.period_set]
            /\ pc' = IF b.outcome = "raised" THEN "done" ELSE "advance"
            /\ pick_result' = IF b.outcome = "raised" THEN "raised" ELSE pick_result
    /\ UNCHANGED <<op, wheel, wheels_found, using_period, fallback_i, pick_args>>
    /\ select_unchanged

\* on to the next wheel, or the final `if ... and ... and ...`
Advance ==
    /\ UNCHANGED <<nav_vars, text_vars, finder_vars, parser_vars, button_vars>>
    /\ pc = "advance"
    /\ LET nw == next_wheel(op, wheel, using_period /\ wheels_found >= 3)
       IN  IF nw = "none"
           THEN /\ pc' = "done"
                /\ pick_result' = IF all_set(op, wheel_set) THEN "true" ELSE "false"
                /\ UNCHANGED <<wheel, last, gestures>>
                /\ select_unchanged
           ELSE /\ EnterSelect(nw, converted_target(pick_args, nw))
                /\ pick_result' = pick_result
    /\ UNCHANGED <<op, wheels_found, using_period, wheel_set, fallback_i, pick_args>>

NextPick ==
    \/ StartPickDate
    \/ StartPickTime
    \/ SelectIter
    \/ SelectFinal
    \/ AfterSelect
    \/ FallbackIter
    \/ PeriodToggle
    \/ Advance

SpecPick == Init /\ [][NextPick]_vars

(***************************************************************************)
(* SessionManager                                                          *)
(***************************************************************************)
MaxConnects == 2

MaxSteps == 3

max_retries == 3

\* a faulty variant of check_session, for C2: it reconnects when the probe fails
check_session_restoring(driver_set, probe_ok) ==
    [valid |-> driver_set, connects |-> IF driver_set /\ ~probe_ok THEN 1 ELSE 0]

\* check_session: the probe (driver.get_window_size) is tried only when a
\* driver is set; no connection is opened, whatever the probe does
check_session(driver_set, probe_ok) ==
    [valid |-> driver_set /\ probe_ok, connects |-> 0]

\* what each attempt of get_page_source_with_retry would meet, one entry more
\* than max_retries: the session is found dead ("dead"), a source is read
\* ("ok"), an empty one is read ("empty"), or the read fails ("raise")
FetchOutcomes == {"dead", "ok", "empty", "raise"}

\* the attempts after the one at which the loop returns are never made: they
\* are written "empty"
FetchRuns ==
    {f \in [1..(max_retries + 1) -> FetchOutcomes] :
        \A i \in 1..Len(f) : \A j \in 1..(i - 1) : f[j] \in {"ok", "dead"} => f[i] = "empty"}

\* the loop `for attempt in range(max_retries)` from the given attempt on
RECURSIVE fetch_from(_, _, _, _)
fetch_from(f, attempt, limit, reads) ==
    IF attempt > limit THEN [source |-> FALSE, reads |-> reads]
    ELSE IF f[attempt] = "dead" THEN [source |-> FALSE, reads |-> reads]
    ELSE IF f[attempt] = "ok" THEN [source |-> TRUE, reads |-> reads + 1]
    ELSE fetch_from(f, attempt + 1, limit, reads + 1)

\* a faulty variant of get_page_source_with_retry, for C18: it retries for as
\* long as the reads give nothing
get_page_source_with_retry_unbounded(f) == fetch_from(f, 1, Len(f), 0)

get_page_source_with_retry(f) == fetch_from(f, 1, max_retries, 0)

(***************************************************************************)
(* AppNavigator._execute_action                                            *)
(***************************************************************************)
Ok(ui) == [error |-> FALSE, why |-> "success", ui_actions |-> ui]

Err(why, ui) == [error |-> TRUE, why |-> why, ui_actions |-> ui]

\* what the model's answer and the screen make of one dispatch:
\*   action: the "action" field; input: the "input_value" field ("none" for
\*   null/absent, "empty" for "", "text" otherwise); find: what
\*   find_element returns ("real" element, the "dummy" centre-tap element,
\*   "none"); ui_ok: the driver carries out the click / send_keys / swipe /
\*   confirm / cancel; picker_ok: the "success" entry of handle_scroll_picker
ActionEnvs ==
    [action : {"click"}, input : {"none"}, find : {"real", "dummy", "none"},
     ui_ok : BOOLEAN, picker_ok : {TRUE}]
    \cup [action : {"input"}, input : {"none", "empty", "text"}, find : {"real", "dummy", "none"},
          ui_ok : BOOLEAN, picker_ok : {TRUE}]
    \cup [action : {"scroll_picker"}, input : {"none", "empty", "text"}, find : {"real", "dummy", "none"},
          ui_ok : BOOLEAN, picker_ok : BOOLEAN]
    \cup [action : {"confirm_picker", "cancel_picker", "swipe", "other"}, input : {"none"},
          find : {"none"}, ui_ok : BOOLEAN, picker_ok : {TRUE}]

\* a faulty variant of click_ok, for C35: the dummy element's click taps
click_ok_dummy_taps(a) == a.find # "none" /\ a.ui_ok

\* element.click(): the dummy element's click reads self.driver, which it does
\* not have, and raises; a real element's click raises when the driver fails
click_ok(a) == a.find = "real" /\ a.ui_ok

\* a faulty variant of dict_truthy, for C27: the 'success' entry is what counts
dict_truthy_success(d) == d.success

\* a non-empty dict is truthy
dict_truthy(d) == DOMAIN d # {}

\* handle_scroll_picker returns a dict on every path
handle_scroll_picker(a) == [success |-> a.picker_ok, message |-> "m", type |-> "t"]

\* connected: picker_handler and fetcher.driver are set (both are set by a
\* successful connect_to_app)
execute_action(a, connected) ==
    IF a.action = "scroll_picker" /\ a.input = "text" /\ connected
    THEN \* the click that opens the picker is best-effort
         LET opened == IF a.find = "none" THEN 0 ELSE 1
         IN  IF dict_truthy(handle_scroll_picker(a))
             THEN Ok(opened)
             ELSE Err("picker_failed", opened)
    ELSE IF a.action = "confirm_picker" /\ connected
    THEN IF a.ui_ok THEN Ok(1) ELSE Err("confirm_failed", 0)
    ELSE IF a.action = "cancel_picker" /\ connected
    THEN IF a.ui_ok THEN Ok(1) ELSE Err("cancel_failed", 0)
    ELSE IF a.action = "click"
    THEN IF a.find = "none" THEN Err("element_not_found", 0)
         ELSE IF click_ok(a) THEN Ok(1)
         ELSE Err("click_raised", 1)
    ELSE IF a.action = "input" /\ a.input # "none"
    THEN IF a.find = "none" THEN Err("input_element_not_found", 0)
         ELSE IF click_ok(a) THEN Ok(2)
         ELSE Err("input_raised", 1)
    ELSE IF a.action = "swipe" /\ connected
    THEN IF a.ui_ok THEN Ok(1) ELSE Err("swipe_raised", 0)
    ELSE Err("unsupported_action", 0)

(***************************************************************************)
(* AppNavigator.navigate                                                   *)
(***************************************************************************)
\* the environment of one navigate() call up to the model's answer:
\*   probe: the session check; fetch: the page-source attempts; llm: the chain
\*   call returns or raises; response: the text is a JSON object ("dict"), a
\*   JSON object that itself has an "error" key ("dict_err"), other valid JSON
\*   ("nondict") or not JSON ("invalid")
Responses == {"dict", "dict_err", "nondict", "invalid"}

navigate_before_dispatch(driver_set, probe, f, llm, response) ==
    IF ~check_session(driver_set, probe).valid
    THEN [stop |-> TRUE, why |-> "session_invalid", fetches |-> 0, llm_calls |-> 0,
          fetch_env |-> <<>>, response |-> "none", raw |-> FALSE]
    ELSE IF ~get_page_source_with_retry(f).source
    THEN [stop |-> TRUE, why |-> "no_page_source",
          fetches |-> get_page_source_with_retry(f).reads, llm_calls |-> 0,
          fetch_env |-> f, response |-> "none", raw |-> FALSE]
    ELSE IF llm = "raise"
    THEN [stop |-> TRUE, why |-> "llm_failed",
          fetches |-> get_page_source_with_retry(f).reads, llm_calls |-> 1,
          fetch_env |-> f, response |-> "none", raw |-> FALSE]
    ELSE IF response = "invalid"
    THEN \* json.JSONDecodeError: the message quotes the response
         [stop |-> TRUE, why |-> "bad_json",
          fetches |-> get_page_source_with_retry(f).reads, llm_calls |-> 1,
          fetch_env |-> f, response |-> response, raw |-> TRUE]
    ELSE IF response = "nondict"
    THEN \* action_data.get raises AttributeError: the message quotes the exception only
         [stop |-> TRUE, why |-> "execute_failed",
          fetches |-> get_page_source_with_retry(f).reads, llm_calls |-> 1,
          fetch_env |-> f, response |-> response, raw |-> FALSE]
    ELSE [stop |-> FALSE, why |-> "dispatch",
          fetches |-> get_page_source_with_retry(f).reads, llm_calls |-> 1,
          fetch_env |-> f, response |-> response, raw |-> FALSE]

\* the dict navigate returns after the dispatch: action_data, with the error of
\* the action merged in
navigate_result(response, action_result) ==
    [error |-> action_result.error \/ response = "dict_err",
     why |-> IF action_result.error THEN action_result.why
             ELSE IF response = "dict_err" THEN "error_key_in_answer" ELSE "success"]

\* whether the dispatched action failed to do what was asked: the picker
\* reported success = False, or the action ended in one of the error returns
dispatch_failed(a, connected) ==
    IF a.action = "scroll_picker" /\ a.input = "text" /\ connected
    THEN ~handle_scroll_picker(a).success
    ELSE execute_action(a, connected).error

\* what became of the picker in the dispatch: handle_scroll_picker was not
\* called, it set the value ("converged"), or it reported success = False
picker_outcome(a, connected) ==
    IF a.action = "scroll_picker" /\ a.input = "text" /\ connected
    THEN IF handle_scroll_picker(a).success THEN "converged" ELSE "failed"
    ELSE "not_called"

\* every (result, trace) one navigate() call can produce; each path ends in
\* a `return` of a dict
NavigateOutcomes(driver_set) ==
    UNION {
        LET pre == navigate_before_dispatch(driver_set, probe, f, llm, response)
        IN  IF pre.stop
            THEN {[result |-> [error |-> TRUE, why |-> pre.why],
                   trace |-> [fetches |-> pre.fetches, llm_calls |-> pre.llm_calls, ui_actions |-> 0,
                              fetch_env |-> pre.fetch_env, response |-> pre.response,
                              raw |-> pre.raw, failed |-> TRUE, returned |-> "dict",
                              picker |-> "not_called", prev_picker |-> "not_called",
                              action |-> "none", find |-> "none"]]}
            ELSE {[result |-> navigate_result(response, execute_action(a, driver_set)),
                   trace |-> [fetches |-> pre.fetches, llm_calls |-> pre.llm_calls,
                              ui_actions |-> execute_action(a, driver_set).ui_actions,
                              fetch_env |-> pre.fetch_env, response |-> pre.response,
                              raw |-> pre.raw, failed |-> dispatch_failed(a, driver_set),
                              returned |-> "dict",
                              picker |-> picker_outcome(a, driver_set),
                              prev_picker |-> "not_called",
                              action |-> a.action, find |-> a.find]] :
                     a \in ActionEnvs}
        : probe \in BOOLEAN, f \in FetchRuns, llm \in {"ok", "raise"}, response \in Responses}

NavigateOutcomesConnected == NavigateOutcomes(TRUE)

NavigateOutcomesUnconnected == NavigateOutcomes(FALSE)

(***************************************************************************)
(* AppNavigator.connect_to_app and AppNavigator.navigate_multi_step        *)
(***************************************************************************)
ConnectToApp ==
    /\ nav_pc = "idle"
    /\ connect_calls < MaxConnects
    /\ connect_calls' = connect_calls + 1
    /\ \E connected \in BOOLEAN : driver' = (driver \/ connected)
    /\ UNCHANGED <<nav_pc, steps_total, step_i, results, checked, navigated, connects_at_start, last_step>>
    /\ UNCHANGED <<picker_vars, text_vars, finder_vars, parser_vars, button_vars>>

\* steps = split_navigation_steps(instruction); results = []
StartMultiStep ==
    /\ nav_pc = "idle"
    /\ \E n \in 1..MaxSteps : steps_total' = n
    /\ nav_pc' = "stepping"
    /\ step_i' = 0
    /\ results' = <<>>
    /\ checked' = <<>>
    /\ navigated' = <<>>
    /\ connects_at_start' = connect_calls
    /\ last_step' = NoStep
    /\ UNCHANGED <<driver, connect_calls>>
    /\ UNCHANGED <<picker_vars, text_vars, finder_vars, parser_vars, button_vars>>

\* `if isinstance(result, dict) and "error" in result: ... break`
stops_sequence_never(result) == FALSE

stops_sequence(result) == result.error

session_message == [error |-> TRUE, why |-> "session_invalid_before_step"]

\* one iteration of `for i, step in enumerate(steps)`
MultiStepIter ==
    /\ nav_pc = "stepping"
    /\ step_i < steps_total
    /\ checked' = Append(checked, step_i)
    /\ \E probe \in BOOLEAN :
        \E chk \in {check_session(driver, probe)} :
            /\ connect_calls' = connect_calls + chk.connects
            /\ IF ~chk.valid
               THEN /\ results' = Append(results, session_message)
                    /\ nav_pc' = "done"
                    /\ UNCHANGED <<step_i, navigated, last_step>>
               ELSE \E o \in (IF driver THEN NavigateOutcomesConnected ELSE NavigateOutcomesUnconnected) :
                    /\ navigated' = Append(navigated, step_i)
                    /\ results' = Append(results, o.result)
                    /\ last_step' = [o.trace EXCEPT !.prev_picker =
                                        IF navigated # <<>> /\ Len(navigated) = Len(results)
                                        THEN last_step.picker ELSE "not_called"]
                    /\ IF stops_sequence(o.result)
                       THEN nav_pc' = "done" /\ step_i' = step_i
                       ELSE /\ step_i' = step_i + 1
                            /\ nav_pc' = IF step_i + 1 < steps_total THEN "stepping" ELSE "done"
    /\ UNCHANGED <<driver, steps_total, connects_at_start>>
    /\ UNCHANGED <<picker_vars, text_vars, finder_vars, parser_vars, button_vars>>

NextNav == ConnectToApp \/ StartMultiStep \/ MultiStepIter

SpecNav == Init /\ [][NextNav]_vars

(***************************************************************************)
(* split_navigation_steps (src/src/utils/formatting.py)                    *)
(***************************************************************************)
MaxPieces == 3

\* the separators list, in the order the loop applies them
separators ==
    <<<<" ", "t", "h", "e", "n", " ">>,
      <<" ", "a", "n", "d", " ", "t", "h", "e", "n", " ">>,
      <<" ", "a", "f", "t", "e", "r", " ", "t", "h", "a", "t", " ">>,
      <<" ", "n", "e", "x", "t", " ">>,
      <<",", " ", "t", "h", "e", "n", " ">>,
      <<",", " ", "a", "n", "d", " ", "t", "h", "e", "n", " ">>,
      <<",", " ", "a", "f", "t", "e", "r", " ", "t", "h", "a", "t", " ">>,
      <<",", " ", "n", "e", "x", "t", " ">>,
      <<";", " ", "t", "h", "e", "n", " ">>,
      <<";", " ", "a", "n", "d", " ", "t", "h", "e", "n", " ">>,
      <<";", " ", "a", "f", "t", "e", "r", " ", "t", "h", "a", "t", " ">>,
      <<";", " ", "n", "e", "x", "t", " ">>,
      <<" ", "a", "n", "d", " ">>>>

\* the index of the first occurrence of sep in s, 0 if there is none
str_find(s, sep) ==
    LET hits == {i \in 1..(Len(s) - Len(sep) + 1) : SubSeq(s, i, i + Len(sep) - 1) = sep}
    IN  IF hits = {} THEN 0 ELSE CHOOSE i \in hits : \A j \in hits : i <= j

\* s.split(sep) for a non-empty sep: cut at the occurrences found left to right
RECURSIVE str_split(_, _)
str_split(s, sep) ==
    LET i == str_find(s, sep)
    IN  IF i = 0 THEN <<s>>
        ELSE <<SubSeq(s, 1, i - 1)>> \o str_split(SubSeq(s, i + Len(sep), Len(s)), sep)

\* new_steps = []; for step in steps: new_steps.extend(step.split(separator))
RECURSIVE split_each(_, _)
split_each(steps, sep) ==
    IF steps = <<>> THEN <<>>
    ELSE str_split(Head(steps), sep) \o split_each(Tail(steps), sep)

\* the loop over the separators, from the k-th one on
RECURSIVE split_by(_, _)
split_by(steps, k) ==
    IF k > Len(separators) THEN steps
    ELSE split_by(split_each(steps, separators[k]), k + 1)

\* faulty variants of clean_steps, for C19 and C20: the steps are not
\* stripped; the blank steps are not dropped
RECURSIVE clean_steps_unstripped(_)
clean_steps_unstripped(steps) ==
    IF steps = <<>> THEN <<>>
    ELSE IF strip(Head(steps)) # <<>>
    THEN <<Head(steps)>> \o clean_steps_unstripped(Tail(steps))
    ELSE clean_steps_unstripped(Tail(steps))

clean_steps_keep_blank(steps) == [i \in 1..Len(steps) |-> strip(steps[i])]

\* steps = [step.strip() for step in steps if step.strip()]
RECURSIVE clean_steps(_)
clean_steps(steps) ==
    IF steps = <<>> THEN <<>>
    ELSE IF strip(Head(steps)) # <<>>
    THEN <<strip(Head(steps))>> \o clean_steps(Tail(steps))
    ELSE clean_steps(Tail(steps))

split_navigation_steps(ins) ==
    LET steps == clean_steps(split_by(<<ins>>, 1))
    IN  IF steps = <<>> THEN <<ins>> ELSE steps

\* the instructions tried: up to MaxPieces of these pieces, concatenated
Pieces ==
    {<<"a">>,
     <<"b">>,
     <<" ">>,
     <<"t", "h", "e", "n">>,
     <<"a", "n", "d">>,
     <<" ", "t", "h", "e", "n", " ">>,
     <<" ", "a", "n", "d", " ">>,
     <<",", " ", "t", "h", "e", "n", " ">>,
     <<";", " ", "n", "e", "x", "t", " ">>,
     <<" ", "a", "n", "d", " ", "t", "h", "e", "n", " ">>,
     <<",", " ", "a", "n", "d", " ", "t", "h", "e", "n", " ">>}

RECURSIVE InstructionsUpTo(_)
InstructionsUpTo(n) ==
    IF n = 0 THEN {<<>>}
    ELSE InstructionsUpTo(n - 1) \cup {x \o q : x \in InstructionsUpTo(n - 1), q \in Pieces}

Instructions == InstructionsUpTo(MaxPieces)

\* one call of split_navigation_steps
SplitNavigationSteps ==
    /\ txt_pc = "idle"
    /\ \E ins \in Instructions :
        /\ instruction' = ins
        /\ split_steps' = split_navigation_steps(ins)
    /\ txt_pc' = "done"
    /\ UNCHANGED <<picker_vars, nav_vars, finder_vars, parser_vars, button_vars>>

NextText == SplitNavigationSteps

SpecText == Init /\ [][NextText]_vars

(***************************************************************************)
(* ElementFinder (src/src/elements/element_finder.py)                      *)
(***************************************************************************)
MaxScreen == 2

TxtS == <<"S">>
TxtxS == <<"x", "S">>

\* an element on screen: str is the string it carries, attr says where
\* ("text": one of text / content-desc / label / value / name, "rid": its
\* resource-id, "popup_text": one of the text attributes of a descendant of
\* an alert / dialog / action-sheet node), vis what is_displayed() and is_enabled() give: "ok" (both
\* true), "hidden" (not displayed), "disabled" (displayed, not enabled, but
\* clickable), "stale" (is_displayed() raises)
Elements ==
    [str : {TxtS}, attr : {"text"}, vis : {"ok", "hidden", "disabled", "stale"}]
    \cup [str : {TxtxS}, attr : {"text", "rid"}, vis : {"ok"}]
    \cup [str : {TxtS}, attr : {"popup_text"}, vis : {"ok"}]

\* the attributes the text queries look at, wherever the node is in the tree
text_attrs == {"text", "popup_text"}

Screens == UNION {[1..n -> Elements] : n \in 0..MaxScreen}

\* the identifiers passed in: "", "S", " S", "s", "B: S"
Identifiers == {<<>>, <<"S">>, <<" ", "S">>, <<"s">>, <<"B", ":", " ", "S">>}

\* `x in s` for strings
Contains(s, x) == str_find(s, x) # 0

\* ' '.join(s.split()): runs of whitespace become one space, the ends are stripped
RECURSIVE collapse_ws(_)
collapse_ws(s) ==
    IF s = <<>> THEN <<>>
    ELSE IF Head(s) \in SpaceChars
    THEN <<" ">> \o collapse_ws(lstrip(s))
    ELSE <<Head(s)>> \o collapse_ws(Tail(s))

normalize_ws(s) == collapse_ws(strip(s))

\* XPath translate(@text, '\t\n\r ', '    ')
translate_ws(s) == [i \in 1..Len(s) |-> IF s[i] \in SpaceChars THEN " " ELSE s[i]]

\* a faulty variant of strategies, for C11: the contains query comes first
strategies_contains_first ==
    <<"contains", "exact", "resource_id", "accessibility_id", "flexible">>

\* the strategies list of _try_standard_element_finding, followed by the
\* whitespace-normalised query
strategies == <<"exact", "contains", "resource_id", "accessibility_id", "flexible">>

\* whether the query of a strategy selects the element
selects(strategy, el, id) ==
    CASE strategy = "exact" -> el.attr \in text_attrs /\ el.str = id
      [] strategy = "contains" -> el.attr \in text_attrs /\ Contains(el.str, id)
      [] strategy = "resource_id" -> el.attr = "rid" /\ Contains(el.str, id)
      [] strategy = "accessibility_id" -> el.attr \in text_attrs /\ el.str = id
      [] strategy = "flexible" ->
            el.attr \in text_attrs /\ Contains(translate_ws(el.str), normalize_ws(id))
      [] strategy = "popup_exact" -> el.attr = "popup_text" /\ el.str = id
      [] strategy = "popup_contains" -> el.attr = "popup_text" /\ Contains(el.str, id)

\* driver.find_elements: the indices of the elements selected, in document order
RECURSIVE find_elements(_, _, _, _)
find_elements(strategy, scr, id, from) ==
    IF from > Len(scr) THEN <<>>
    ELSE IF selects(strategy, scr[from], id)
    THEN <<from>> \o find_elements(strategy, scr, id, from + 1)
    ELSE find_elements(strategy, scr, id, from + 1)

\* a faulty variant of accepted, for C15: is_enabled() is not asked
accepted_if_displayed(el) == el.vis \in {"ok", "disabled"}

\* `element.is_displayed() and element.is_enabled()`
accepted(el) == el.vis = "ok"

\* `for element in elements: if ...: return element`, inside one try
RECURSIVE first_accepted(_, _)
first_accepted(scr, indices) ==
    IF indices = <<>> THEN [outcome |-> "none", index |-> 0]
    ELSE IF scr[Head(indices)].vis = "stale" THEN [outcome |-> "raised", index |-> 0]
    ELSE IF accepted(scr[Head(indices)]) THEN [outcome |-> "accepted", index |-> Head(indices)]
    ELSE first_accepted(scr, Tail(indices))

\* one strategy: the query, then the scan of what it returned
try_strategy(strategy, scr, id, query_raises) ==
    IF query_raises THEN [outcome |-> "raised", index |-> 0]
    ELSE first_accepted(scr, find_elements(strategy, scr, id, 1))

\* a faulty variant of strategy_except, for C12: the exception is passed on
strategy_except_reraise == "raise"

\* `except Exception as e: pass` around each strategy
strategy_except == "pass"

\* _check_for_popup: the page source is read and a fixed answer returned
check_for_popup(page_source_raises) == [has_popup |-> FALSE]

\* _find_element_in_popup: the popup-scoped strategies in turn
find_element_in_popup(scr, id, query_raises) ==
    IF try_strategy("popup_exact", scr, id, query_raises).outcome = "accepted"
    THEN try_strategy("popup_exact", scr, id, query_raises)
    ELSE try_strategy("popup_contains", scr, id, query_raises)

\* `identifier.split(":", 1)[1].strip()` when the identifier has a colon, as in
\* AppNavigator._find_element of langchain_appium_navigator.py
split_colon_clean(id) ==
    IF Contains(id, <<":">>)
    THEN strip(SubSeq(id, str_find(id, <<":">>) + 1, Len(id)))
    ELSE strip(id)

\* `clean_identifier = identifier.strip()` of ElementFinder.find_element
clean(id) == strip(id)

\* find_element up to the call of _try_standard_element_finding
FindStart ==
    /\ find_pc = "idle"
    /\ \E id \in Identifiers, scr \in Screens :
        /\ identifier' = id
        /\ screen' = scr
        /\ IF id = <<>>
           THEN /\ found' = [kind |-> "null", via |-> "none", index |-> 0]
                /\ find_pc' = "done"
                /\ clean_identifier' = <<>>
           ELSE /\ found' = found
                /\ find_pc' = "standard"
                /\ clean_identifier' = clean(id)
    /\ UNCHANGED <<find_i, queries, click_outcome, taps>>
    /\ UNCHANGED <<picker_vars, nav_vars, text_vars, parser_vars, button_vars>>

\* the next strategy of _try_standard_element_finding
StandardStrategy ==
    /\ find_pc = "standard"
    /\ find_i < Len(strategies)
    /\ \E query_raises \in BOOLEAN :
        \E t \in {try_strategy(strategies[find_i + 1], screen, clean_identifier, query_raises)} :
            /\ queries' = Append(queries, [name |-> strategies[find_i + 1], outcome |-> t.outcome])
            /\ find_i' = find_i + 1
            /\ IF t.outcome = "accepted"
               THEN /\ found' = [kind |-> "real", via |-> strategies[find_i + 1], index |-> t.index]
                    /\ find_pc' = "done"
               ELSE IF t.outcome = "raised" /\ strategy_except = "raise"
               THEN /\ found' = [kind |-> "raised", via |-> strategies[find_i + 1], index |-> 0]
                    /\ find_pc' = "done"
               ELSE /\ found' = found
                    /\ find_pc' = IF find_i + 1 < Len(strategies) THEN "standard" ELSE "popup"
    /\ UNCHANGED <<identifier, screen, clean_identifier, click_outcome, taps>>
    /\ UNCHANGED <<picker_vars, nav_vars, text_vars, parser_vars, button_vars>>

\* the driver queries _find_element_in_popup makes
popup_queries(scr, id) ==
    <<[name |-> "popup_exact", outcome |-> try_strategy("popup_exact", scr, id, FALSE).outcome]>>
    \o (IF try_strategy("popup_exact", scr, id, FALSE).outcome = "accepted" THEN <<>>
        ELSE <<[name |-> "popup_contains",
                outcome |-> try_strategy("popup_contains", scr, id, FALSE).outcome]>>)

\* `popup_state = self._check_for_popup()` and the search it may lead to
CheckPopup ==
    /\ find_pc = "popup"
    /\ \E page_source_raises \in BOOLEAN :
        LET state == check_for_popup(page_source_raises)
            t == find_element_in_popup(screen, clean_identifier, FALSE)
        IN  /\ queries' = Append(queries, [name |-> "page_source",
                                            outcome |-> IF page_source_raises THEN "raised" ELSE "none"])
                           \o (IF state.has_popup THEN popup_queries(screen, clean_identifier)
                               ELSE <<>>)
            /\ IF state.has_popup /\ t.outcome = "accepted"
               THEN /\ found' = [kind |-> "real", via |-> "popup", index |-> t.index]
                    /\ find_pc' = "done"
               ELSE /\ found' = found
                    /\ find_pc' = "positional"
    /\ UNCHANGED <<identifier, screen, clean_identifier, find_i, click_outcome, taps>>
    /\ UNCHANGED <<picker_vars, nav_vars, text_vars, parser_vars, button_vars>>

\* _find_elements_by_position: the displayed elements the query
\* //*[@clickable='true' or @enabled='true'] returns; any failure gives []
RECURSIVE visible_elements(_, _)
visible_elements(scr, from) ==
    IF from > Len(scr) THEN <<>>
    ELSE IF scr[from].vis \in {"ok", "disabled"}
    THEN <<from>> \o visible_elements(scr, from + 1)
    ELSE visible_elements(scr, from + 1)

find_elements_by_position(scr, size_raises, query_raises) ==
    IF size_raises \/ query_raises THEN <<>> ELSE visible_elements(scr, 1)

\* the text attributes of an element joined, each after a space
element_text(el) == IF el.attr \in text_attrs THEN <<" ">> \o el.str ELSE <<>>

\* `clean_identifier.lower() in element_text.lower()` over the visible elements
RECURSIVE potential_elements(_, _, _)
potential_elements(scr, indices, id) ==
    IF indices = <<>> THEN <<>>
    ELSE IF Contains(lower(element_text(scr[Head(indices)])), lower(id))
    THEN <<Head(indices)>> \o potential_elements(scr, Tail(indices), id)
    ELSE potential_elements(scr, Tail(indices), id)

\* the driver queries _try_positional_tapping makes
positional_queries(size_raises, query_raises, potential, tap_size_raises) ==
    <<[name |-> "window_size", outcome |-> IF size_raises THEN "raised" ELSE "none"]>>
    \o (IF size_raises THEN <<>>
        ELSE <<[name |-> "clickable",
                outcome |-> IF query_raises THEN "raised"
                            ELSE IF potential # <<>> THEN "accepted" ELSE "none"]>>)
    \o (IF potential # <<>> THEN <<>>
        ELSE <<[name |-> "tap_window_size", outcome |-> IF tap_size_raises THEN "raised" ELSE "none"]>>)

\* _try_positional_tapping
try_positional_tapping(scr, id, size_raises, query_raises, tap_size_raises) ==
    LET potential ==
            potential_elements(scr, find_elements_by_position(scr, size_raises, query_raises), id)
    IN  IF potential # <<>> THEN [kind |-> "real", via |-> "positional", index |-> Head(potential)]
        ELSE IF tap_size_raises THEN [kind |-> "null", via |-> "none", index |-> 0]
        ELSE [kind |-> "dummy", via |-> "positional", index |-> 0]

\* `return self._try_positional_tapping(clean_identifier)`
Positional ==
    /\ find_pc = "positional"
    /\ \E size_raises \in BOOLEAN, query_raises \in BOOLEAN, tap_size_raises \in BOOLEAN :
        /\ size_raises => ~query_raises
        /\ found' = try_positional_tapping(screen, clean_identifier,
                                            size_raises, query_raises, tap_size_raises)
        /\ queries' = queries \o positional_queries(size_raises, query_raises,
                            potential_elements(screen,
                                find_elements_by_position(screen, size_raises, query_raises),
                                clean_identifier),
                            tap_size_raises)
    /\ find_pc' = "done"
    /\ UNCHANGED <<identifier, screen, clean_identifier, find_i, click_outcome, taps>>
    /\ UNCHANGED <<picker_vars, nav_vars, text_vars, parser_vars, button_vars>>

\* DummyElement.click: `TouchAction(self.driver)` on an object that has no
\* driver attribute raises before any tap
dummy_click == [outcome |-> "raised", taps |-> 0]

\* the caller's `element.click()` (navigator.py, inside its try)
ClickHandle ==
    /\ find_pc = "done"
    /\ found.kind \in {"real", "dummy"}
    /\ IF found.kind = "dummy"
       THEN /\ click_outcome' = dummy_click.outcome
            /\ taps' = dummy_click.taps
       ELSE \E click_raises \in BOOLEAN :
            /\ click_outcome' = IF click_raises THEN "raised" ELSE "ok"
            /\ taps' = IF click_raises THEN 0 ELSE 1
    /\ find_pc' = "clicked"
    /\ UNCHANGED <<identifier, screen, clean_identifier, find_i, queries, found>>
    /\ UNCHANGED <<picker_vars, nav_vars, text_vars, parser_vars, button_vars>>

NextFind == FindStart \/ StandardStrategy \/ CheckPopup \/ Positional \/ ClickHandle

SpecFind == Init /\ [][NextFind]_vars

(***************************************************************************)
(* element_parser (src/src/elements/element_parser.py)                     *)
(***************************************************************************)
MaxNodes == 2

ios_interactive_types ==
    <<"XCUIElementTypeButton", "XCUIElementTypeCell", "XCUIElementTypeTextField",
      "XCUIElementTypeSwitch", "XCUIElementTypeLink", "XCUIElementTypeSearchField",
      "XCUIElementTypeTable", "XCUIElementTypeStaticText", "XCUIElementTypeOther">>

android_interactive_types ==
    <<"android.widget.Button", "android.widget.ImageButton", "android.widget.TextView",
      "android.widget.EditText", "android.widget.CheckBox", "android.widget.Switch",
      "android.widget.RadioButton", "android.widget.Spinner", "android.widget.ListView",
      "android.view.View">>

\* `'XCUI' in elem_type`, for the types of the two lists
has_xcui(elem_type) == \E i \in 1..Len(ios_interactive_types) : ios_interactive_types[i] = elem_type

\* the values an enabled / visible / displayed attribute takes ("absent": the
\* node does not carry it)
FlagSets ==
    {[enabled |-> "absent", visible |-> "absent", displayed |-> "absent"],
     [enabled |-> "true", visible |-> "absent", displayed |-> "absent"],
     [enabled |-> "false", visible |-> "true", displayed |-> "absent"],
     [enabled |-> "false", visible |-> "false", displayed |-> "true"]}

\* the nodes below the root of a snapshot, in document order: an iOS node
\* carries its class in the type attribute, an Android node only in its tag
InventoryNodes ==
    {[tag |-> t.tag, type |-> t.type, name |-> n, label |-> l, flags |-> f] :
        t \in {[tag |-> "XCUIElementTypeButton", type |-> "XCUIElementTypeButton"],
               [tag |-> "XCUIElementTypeCell", type |-> "XCUIElementTypeCell"],
               [tag |-> "android.widget.Button", type |-> "absent"]},
        n \in {<<>>, <<"a">>},
        l \in {<<>>, <<"b">>},
        f \in FlagSets}

\* a page source: text that parses into nodes, or text that does not parse
InventorySources ==
    {[wellformed |-> FALSE, nodes |-> <<>>]}
    \cup {[wellformed |-> TRUE, nodes |-> ns] : ns \in UNION {[1..n -> InventoryNodes] : n \in 0..MaxNodes}}

\* a faulty variant of fromstring, for C23: text that does not parse is read
\* as an empty tree
fromstring_lenient(src) == [ok |-> TRUE, nodes |-> src.nodes]

\* ET.fromstring(page_source): raises on text that does not parse
fromstring(src) == [ok |-> src.wellformed, nodes |-> src.nodes]

\* elem.get(attr, default)
get_or(value, default) == IF value = "absent" THEN default ELSE value

\* root.findall(xpath): the nodes selected, in document order
RECURSIVE findall_type(_, _, _)
findall_type(nodes, elem_type, from) ==
    IF from > Len(nodes) THEN <<>>
    ELSE IF (IF has_xcui(elem_type) THEN nodes[from].type = elem_type
                                    ELSE nodes[from].tag = elem_type)
    THEN <<from>> \o findall_type(nodes, elem_type, from + 1)
    ELSE findall_type(nodes, elem_type, from + 1)

\* a faulty variant of is_available, for C22: the attributes are not looked at
is_available_always(node) == TRUE

\* the negation of the `continue` condition on enabled / visible / displayed
is_available(node) ==
    \/ get_or(node.flags.enabled, "false") = "true"
    \/ get_or(node.flags.visible, "false") = "true"
    \/ get_or(node.flags.displayed, "false") = "true"

\* `attrs['name'] or attrs['label'] or ...`
best_identifier(node) == IF node.name # <<>> THEN node.name ELSE node.label

\* f"{attrs['type']}: {identifier}"
element_info(node) == <<get_or(node.type, node.tag)>> \o <<":", " ">> \o best_identifier(node)

InList(list, x) == \E i \in 1..Len(list) : list[i] = x

\* a faulty variant of append_unique, for C21: the entry is always appended
append_always(list, info) == Append(list, info)

\* `if element_info not in available_elements: available_elements.append(...)`
append_unique(list, info) == IF InList(list, info) THEN list ELSE Append(list, info)

\* the inner loop over the elements of one type
RECURSIVE collect_elements(_, _, _)
collect_elements(nodes, indices, available) ==
    IF indices = <<>> THEN available
    ELSE LET node == nodes[Head(indices)]
         IN  IF ~is_available(node) THEN collect_elements(nodes, Tail(indices), available)
             ELSE IF best_identifier(node) = <<>>
             THEN collect_elements(nodes, Tail(indices), available)
             ELSE collect_elements(nodes, Tail(indices), append_unique(available, element_info(node)))

\* the outer loop over interactive_types
RECURSIVE collect_types(_, _, _, _)
collect_types(nodes, types, k, available) ==
    IF k > Len(types) THEN available
    ELSE collect_types(nodes, types, k + 1,
            collect_elements(nodes, findall_type(nodes, types[k], 1), available))

interactive_types(plat) ==
    IF plat = "android" THEN android_interactive_types ELSE ios_interactive_types

\* extract_available_elements: "list" stands for the entries joined by
\* newlines, "none_found" and "parse_error" for the two fixed messages
extract_available_elements(src, plat) ==
    LET root == fromstring(src)
    IN  IF ~root.ok THEN [kind |-> "parse_error", lines |-> <<>>]
        ELSE LET available == collect_types(root.nodes, interactive_types(plat), 1, <<>>)
             IN  IF available # <<>> THEN [kind |-> "list", lines |-> available]
                 ELSE [kind |-> "none_found", lines |-> <<>>]

\* a first call of extract_available_elements on a snapshot
ExtractAvailableElements ==
    /\ parse_pc = "idle"
    /\ \E src \in InventorySources, plat \in {"ios", "android"} :
        /\ page_source' = src
        /\ platform' = plat
        /\ inventory' = extract_available_elements(src, plat)
    /\ parse_pc' = "extracted"
    /\ UNCHANGED <<inventory_again, popup_state>>
    /\ UNCHANGED <<picker_vars, nav_vars, text_vars, finder_vars, button_vars>>

\* a second call on the same snapshot
ExtractAgain ==
    /\ parse_pc = "extracted"
    /\ inventory_again' = extract_available_elements(page_source, platform)
    /\ parse_pc' = "extracted_again"
    /\ UNCHANGED <<page_source, platform, inventory, popup_state>>
    /\ UNCHANGED <<picker_vars, nav_vars, text_vars, finder_vars, button_vars>>

\* type attributes of the nodes detect_popup_state looks for
StrAlert == <<"A", "l", "e", "r", "t">>
StrActionSheet == <<"A", "c", "t", "i", "o", "n", "S", "h", "e", "e", "t">>
StrDialog == <<"D", "i", "a", "l", "o", "g">>
StrButton == <<"B", "u", "t", "t", "o", "n">>

\* "[10,20][110,220]" and "{{10, 20}, {100, 200}}"
BracketPair == <<"[", "1", "0", ",", "2", "0", "]", "[", "1", "1", "0", ",", "2", "2", "0", "]">>
BracePair == <<"{", "{", "1", "0", ",", " ", "2", "0", "}", ",", " ", "{", "1", "0", "0", ",", " ", "2", "0", "0", "}", "}">>

PopupNodes ==
    {[tag |-> "node", type |-> t, bounds |-> b.bounds, frame |-> b.frame] :
        t \in {StrAlert, StrActionSheet, StrDialog, StrButton},
        b \in {[bounds |-> <<>>, frame |-> <<>>],
               [bounds |-> BracketPair, frame |-> <<>>],
               [bounds |-> <<>>, frame |-> BracePair]}}
    \cup {[tag |-> "android.app.Dialog", type |-> <<>>, bounds |-> BracketPair, frame |-> <<>>]}

PopupSources ==
    {[wellformed |-> FALSE, nodes |-> <<>>]}
    \cup {[wellformed |-> TRUE, nodes |-> ns] : ns \in UNION {[1..n -> PopupNodes] : n \in 0..MaxNodes}}

\* whether ElementTree's findall accepts a predicate written with contains():
\* its path language has no functions, and the call raises SyntaxError
\* ("invalid predicate")
xpath_contains_supported == FALSE

\* root.findall(".//*[contains(@type, '...')]")
RECURSIVE findall_type_contains(_, _, _)
findall_type_contains(nodes, part, from) ==
    IF from > Len(nodes) THEN <<>>
    ELSE IF Contains(nodes[from].type, part)
    THEN <<from>> \o findall_type_contains(nodes, part, from + 1)
    ELSE findall_type_contains(nodes, part, from + 1)

\* root.findall(".//android.app.Dialog")
RECURSIVE findall_tag(_, _, _)
findall_tag(nodes, tag, from) ==
    IF from > Len(nodes) THEN <<>>
    ELSE IF nodes[from].tag = tag
    THEN <<from>> \o findall_tag(nodes, tag, from + 1)
    ELSE findall_tag(nodes, tag, from + 1)

\* s.replace(c, '') for one character
RECURSIVE str_remove(_, _)
str_remove(s, c) ==
    IF s = <<>> THEN <<>>
    ELSE IF Head(s) = c THEN str_remove(Tail(s), c)
    ELSE <<Head(s)>> \o str_remove(Tail(s), c)

\* the dict built from four parts; a part int() rejects raises ValueError,
\* which leaves bounds at None
bounds_from_parts(parts, as_corner) ==
    IF Len(parts) < 4 THEN NoBounds
    ELSE IF \E i \in 1..4 : ~pyint(parts[i]).ok THEN NoBounds
    ELSE [parsed |-> TRUE,
          x |-> pyint(parts[1]).val,
          y |-> pyint(parts[2]).val,
          width |-> IF as_corner THEN pyint(parts[3]).val - pyint(parts[1]).val
                    ELSE pyint(parts[3]).val,
          height |-> IF as_corner THEN pyint(parts[4]).val - pyint(parts[2]).val
                     ELSE pyint(parts[4]).val]

\* the parsing of bounds_str
parse_bounds(bounds_str) ==
    IF Contains(bounds_str, <<"[">>)
    THEN bounds_from_parts(
            str_split(str_remove(str_remove(bounds_str, "["), "]"), <<",">>), TRUE)
    ELSE IF Contains(bounds_str, <<"{">>)
    THEN bounds_from_parts(
            str_split(str_remove(str_remove(str_remove(bounds_str, "{"), "}"), " "), <<",">>), FALSE)
    ELSE NoBounds

\* the part of detect_popup_state after the five findall calls
classify_popup(nodes, ios_alerts, ios_dialogs, ios_action_sheets, android_alerts, android_dialogs) ==
    IF ios_alerts = <<>> /\ ios_dialogs = <<>> /\ ios_action_sheets = <<>>
       /\ android_alerts = <<>> /\ android_dialogs = <<>>
    THEN NoPopupState
    ELSE LET popup_type ==
                 IF ios_action_sheets # <<>> THEN "action_sheet"
                 ELSE IF ios_dialogs # <<>> \/ android_dialogs # <<>> THEN "dialog"
                 ELSE "alert"
             popup_element ==
                 IF ios_alerts # <<>> THEN nodes[ios_alerts[1]]
                 ELSE IF ios_dialogs # <<>> THEN nodes[ios_dialogs[1]]
                 ELSE IF ios_action_sheets # <<>> THEN nodes[ios_action_sheets[1]]
                 ELSE IF android_alerts # <<>> THEN nodes[android_alerts[1]]
                 ELSE nodes[android_dialogs[1]]
             bounds_str ==
                 IF popup_element.bounds # <<>> THEN popup_element.bounds ELSE popup_element.frame
         IN  [has_popup |-> TRUE,
              popup_type |-> popup_type,
              bounds |-> IF bounds_str # <<>> THEN parse_bounds(bounds_str) ELSE NoBounds,
              error |-> FALSE]

\* detect_popup_state: any exception gives {'has_popup': False, 'error': ...}
detect_popup_state(src) ==
    LET root == fromstring(src)
    IN  IF ~root.ok THEN [NoPopupState EXCEPT !.error = TRUE]
        ELSE IF ~xpath_contains_supported THEN [NoPopupState EXCEPT !.error = TRUE]
        ELSE classify_popup(root.nodes,
                findall_type_contains(root.nodes, StrAlert, 1),
                findall_type_contains(root.nodes, StrDialog, 1),
                findall_type_contains(root.nodes, StrActionSheet, 1),
                <<>>,
                findall_tag(root.nodes, "android.app.Dialog", 1))

\* a call of detect_popup_state on a snapshot
DetectPopupState ==
    /\ parse_pc = "idle"
    /\ \E src \in PopupSources :
        /\ page_source' = src
        /\ popup_state' = detect_popup_state(src)
    /\ parse_pc' = "detected"
    /\ UNCHANGED <<platform, inventory, inventory_again>>
    /\ UNCHANGED <<picker_vars, nav_vars, text_vars, finder_vars, button_vars>>

NextParse == ExtractAvailableElements \/ ExtractAgain \/ DetectPopupState

SpecParse == Init /\ [][NextParse]_vars

(***************************************************************************)
(* PickerHandler.confirm_selection / cancel_selection                      *)
(***************************************************************************)
MaxButtons == 2

StrConfirm == <<"C", "o", "n", "f", "i", "r", "m">>
StrDone == <<"D", "o", "n", "e">>
StrOK == <<"O", "K">>
StrSave == <<"S", "a", "v", "e">>
StrApply == <<"A", "p", "p", "l", "y">>
StrCancel == <<"C", "a", "n", "c", "e", "l">>
StrBook == <<"B", "o", "o", "k">>
StrGoBack == <<"G", "o", " ", "B", "a", "c", "k">>

\* a button on screen: its label (which is also its name and accessibility
\* id) and what the driver does with it: "ok", "click_fails" (click() raises),
\* "stale" (get_attribute() and click() raise)
Buttons ==
    [label : {StrConfirm, StrDone, StrCancel, StrBook, StrGoBack, StrX},
     state : {"ok", "click_fails", "stale"}]

ButtonScreens == UNION {[1..n -> Buttons] : n \in 0..MaxButtons}

\* the driver lookups that may raise for a reason of their own
LookupKinds == {"accessibility_id", "xpath", "accessibility_id_other", "all_buttons"}

\* the find_element calls made before the scan, in order
lookup_steps(which) ==
    IF which = "confirm"
    THEN <<[kind |-> "accessibility_id", text |-> StrConfirm],
           [kind |-> "xpath", text |-> StrConfirm],
           [kind |-> "accessibility_id_other", text |-> StrDone],
           [kind |-> "accessibility_id_other", text |-> StrOK],
           [kind |-> "accessibility_id_other", text |-> StrSave],
           [kind |-> "accessibility_id_other", text |-> StrApply]>>
    ELSE <<[kind |-> "accessibility_id", text |-> StrCancel],
           [kind |-> "xpath", text |-> StrCancel]>>

\* the words the scan of all buttons looks for in label and name
scan_texts(which) ==
    IF which = "confirm"
    THEN {lower(StrConfirm), lower(StrDone), lower(StrOK), lower(StrSave), lower(StrApply)}
    ELSE {lower(StrCancel), <<"b", "a", "c", "k">>, <<"c", "l", "o", "s", "e">>}

\* driver.find_element: the first button with that name, 0 for NoSuchElement
RECURSIVE find_button(_, _, _)
find_button(btns, text, from) ==
    IF from > Len(btns) THEN 0
    ELSE IF btns[from].label = text THEN from
    ELSE find_button(btns, text, from + 1)

\* a faulty variant of returns_after_click, for C26: the scan goes on after a
\* click that succeeded
returns_after_click_never == FALSE

\* `return True` after button.click() in the scan of all buttons
returns_after_click == TRUE

\* the find_element / click pairs, each in its own try
RECURSIVE try_lookups(_, _, _, _, _)
try_lookups(btns, fail, steps, k, log) ==
    IF k > Len(steps) THEN log
    ELSE LET idx == IF steps[k].kind \in fail THEN 0 ELSE find_button(btns, steps[k].text, 1)
             looked == Append(log.lookups, steps[k].kind)
         IN  IF idx = 0
             THEN try_lookups(btns, fail, steps, k + 1, [log EXCEPT !.lookups = looked])
             ELSE IF btns[idx].state = "ok"
             THEN [result |-> "true", lookups |-> looked,
                   clicks |-> Append(log.clicks, [index |-> idx, ok |-> TRUE])]
             ELSE try_lookups(btns, fail, steps, k + 1,
                    [log EXCEPT !.lookups = looked,
                                !.clicks = Append(log.clicks, [index |-> idx, ok |-> FALSE])])

\* `any(text.lower() in label.lower() or text.lower() in name.lower() ...)`
scan_matches(btn, which) == \E text \in scan_texts(which) : Contains(lower(btn.label), lower(text))

\* the loop over all buttons
RECURSIVE scan_buttons(_, _, _, _)
scan_buttons(btns, which, from, log) ==
    IF from > Len(btns) THEN log
    ELSE IF btns[from].state = "stale" THEN scan_buttons(btns, which, from + 1, log)
    ELSE IF ~scan_matches(btns[from], which) THEN scan_buttons(btns, which, from + 1, log)
    ELSE IF btns[from].state = "ok"
    THEN LET clicked == [log EXCEPT !.result = "true",
                                    !.clicks = Append(log.clicks, [index |-> from, ok |-> TRUE])]
         IN  IF returns_after_click THEN clicked
             ELSE scan_buttons(btns, which, from + 1, clicked)
    ELSE scan_buttons(btns, which, from + 1,
            [log EXCEPT !.clicks = Append(log.clicks, [index |-> from, ok |-> FALSE])])

\* confirm_selection ("confirm") and cancel_selection ("cancel")
press_button(btns, fail, which) ==
    LET looked == try_lookups(btns, fail, lookup_steps(which), 1,
                              [result |-> "none", lookups |-> <<>>, clicks |-> <<>>])
    IN  IF looked.result = "true" THEN looked
        ELSE IF "all_buttons" \in fail
        THEN [looked EXCEPT !.result = "false", !.lookups = Append(looked.lookups, "all_buttons")]
        ELSE LET scanned == scan_buttons(btns, which, 1,
                                [looked EXCEPT !.lookups = Append(looked.lookups, "all_buttons")])
             IN  IF scanned.result = "true" THEN scanned
                 ELSE [scanned EXCEPT !.result = "false"]

\* one call: the screen and the failing lookups are drawn, the call runs to
\* its return
Pressed(which) ==
    \E btns \in ButtonScreens, fail \in SUBSET LookupKinds :
        \E r \in {press_button(btns, fail, which)} :
            /\ buttons' = btns
            /\ failing' = fail
            /\ lookups' = r.lookups
            /\ clicks' = r.clicks
            /\ btn_result' = r.result
            /\ btn_op' = which

ConfirmSelection ==
    /\ btn_pc = "idle"
    /\ Pressed("confirm")
    /\ btn_pc' = "done"
    /\ UNCHANGED <<picker_vars, nav_vars, text_vars, finder_vars, parser_vars>>

CancelSelection ==
    /\ btn_pc = "idle"
    /\ Pressed("cancel")
    /\ btn_pc' = "done"
    /\ UNCHANGED <<picker_vars, nav_vars, text_vars, finder_vars, parser_vars>>

NextButton == ConfirmSelection \/ CancelSelection

SpecButton == Init /\ [][NextButton]_vars

Next == NextSelect \/ NextPick \/ NextNav \/ NextText \/ NextFind \/ NextParse \/ NextButton

Spec == Init /\ [][Next]_vars

(***************************************************************************)
(* Properties of navigate_multi_step (checked under SpecNav)               *)
(***************************************************************************)
\* the positions 0, 1, ..., n-1 in order
FirstSteps(n) == [i \in 1..n |-> i - 1]

HasError(rs) == \E i \in 1..Len(rs) : rs[i].error

\* C1: navigate_multi_step runs the steps in order and stops at the first
\* step whose result has an error: the results are those of a prefix of the
\* steps, only the last of them can be an error, no step after a failing one
\* is attempted, and a run without a failing step returns one result per step.
C1_StopsAtFirstError ==
    /\ Len(results) <= steps_total
    /\ \A i \in 1..(Len(results) - 1) : ~results[i].error
    /\ Len(navigated) <= Len(results)
    /\ navigated = FirstSteps(Len(navigated))
    /\ nav_pc = "stepping" => (~HasError(results) /\ Len(results) = step_i /\ step_i < steps_total)
    /\ nav_pc = "done" =>
          IF HasError(results)
          THEN results[Len(results)].error
          ELSE Len(results) = steps_total /\ navigated = FirstSteps(steps_total)

\* a three-step instruction whose second step finds no element: two results,
\* the third step never tried
C1_Witness ==
    /\ nav_pc = "done"
    /\ steps_total = 3
    /\ Len(results) = 2
    /\ results[2].error
    /\ results[2].why = "element_not_found"
    /\ navigated = <<0, 1>>

\* C2: before each step the session is checked; when the check fails a
\* session-invalid result is appended and the sequence stops without the
\* step being navigated, and no connection is opened to restore the session.
C2_SessionCheckedNoReconnect ==
    /\ checked = FirstSteps(Len(results))
    /\ \A j \in 1..Len(navigated) : j <= Len(checked) /\ navigated[j] = checked[j]
    /\ \A i \in 1..Len(results) :
          results[i] = session_message =>
              /\ i = Len(results)
              /\ nav_pc = "done"
              /\ Len(navigated) = i - 1
    /\ nav_pc = "done" /\ Len(navigated) < Len(results) =>
          results[Len(results)] = session_message
    /\ nav_pc # "idle" => connect_calls = connects_at_start

\* the session of a connected navigator dies before the second of three steps
C2_Witness ==
    /\ driver
    /\ nav_pc = "done"
    /\ steps_total = 3
    /\ results # <<>>
    /\ Len(results) = 2
    /\ results[2] = session_message
    /\ checked = <<0, 1>>
    /\ navigated = <<0>>
    /\ connect_calls = connects_at_start

(***************************************************************************)
(* Properties of select_value_fast (checked under SpecSelect)              *)
(***************************************************************************)
\* C3: select_value_fast returns success in the iteration whose read matches
\* the target: that iteration makes no scroll, the call has returned True, and
\* no scroll is made on the wheel afterwards.
C3_MatchReturnsAtOnce ==
    /\ [](match_seen =>
            /\ pc = "returned"
            /\ sel_result = "true"
            /\ read_matches(last.read, target_value, value_type)
            /\ last.gesture.issued = 0)
    /\ [][match_seen => gestures' = gestures]_vars

\* a match in the loop, reached after scrolling
C3_Witness ==
    /\ op = "select"
    /\ last.kind = "match"
    /\ match_seen
    /\ gestures >= 2
    /\ sel_result = "true"

\* C4: whatever the reads do (a value, no value, an exception),
\* select_value_fast ends after at most 25 iterations of its loop, each of
\* which makes at most one scroll: at most 25 scrolls per call.
C4_BoundedAttempts ==
    /\ [](/\ attempts <= 25
          /\ gestures <= attempts
          /\ last.gesture.issued <= 1
          /\ pc = "loop" => attempts < 25)
    /\ [][pc = "loop" =>
            /\ pc' = "returned" \/ attempts' = attempts + 1
            /\ gestures' <= gestures + 1]_vars

\* a call that used all 25 iterations, each with a scroll, some of them after a
\* read that raised or gave no value
C4_Witness ==
    /\ op = "select"
    /\ pc = "returned"
    /\ attempts = 25
    /\ gestures = 25
    /\ last.kind = "final"
    /\ ~truthy(last.read)

\* C5: select_value_fast returns True exactly when one of its reads (in the
\* loop or the one after it) equals the target under the comparison of the
\* value class; a wheel whose reads reach the target is reported as success.
C5_TrueIffMatchingRead ==
    /\ pc = "returned" => (sel_result = "true" <=> match_seen)
    /\ pc # "returned" => sel_result = "none"
    /\ sel_result = "true" => read_matches(last.read, target_value, value_type)

\* the year wheel reaching 2023 on its third read
C5_Witness ==
    /\ op = "select"
    /\ pc = "returned"
    /\ sel_result = "true"
    /\ value_type = "year"
    /\ previous_values = <<2019, 2022, 2023>>

\* C9: when the value read is usable and is not the target, the scroll goes
\* "up" if the key of the target is greater than the key of the value read and
\* "down" otherwise.
C9_DirectionFollowsKeys ==
    (last.kind \in {"blind", "match", "scroll"} /\ truthy(last.read)
        /\ ~values_match(last.read.value, target_value, value_type)) =>
        /\ last.gesture.issued = 1
        /\ last.gesture.direction =
              IF target_key_of(target_value, value_type) > to_key(last.read.value)
              THEN "up" ELSE "down"

\* both directions: April read on the way to March, then 2019 on the way to 2023
C9_Witness ==
    /\ op = "select"
    /\ last.kind = "scroll"
    /\ value_type = "month"
    /\ last.read.value = StrApril
    /\ last.gesture.direction = "down"
    /\ last.gesture.wheel = "month"

\* the last four values read alternate between two values
Alternating(h) ==
    /\ Len(h) >= 4
    /\ h[Len(h)] = h[Len(h) - 2]
    /\ h[Len(h) - 1] = h[Len(h) - 3]
    /\ h[Len(h)] # h[Len(h) - 1]

\* C10: when the values read alternate between two values over four reads, the
\* factor of the next scroll is strictly larger than the factor the ordinary
\* distance tier of the value class gives for the same distance.
C10_OscillationStronger ==
    (last.kind = "scroll" /\ Alternating(previous_values)) =>
        last.gesture.factor > tier_factor(value_type, last.distance)

(***************************************************************************)
(* Properties of pick_date and pick_time (checked under SpecPick)          *)
(***************************************************************************)
DateRank(w) ==
    CASE w = "year" -> 1
      [] w = "month" -> 2
      [] w = "day" -> 3
      [] OTHER -> 0

\* C6: in pick_date every scroll on the year wheel (its fallback loop
\* included) comes before any scroll on the month wheel, and every scroll on
\* the month wheel before any on the day wheel: the wheel being driven only
\* moves year -> month -> day, and each scroll is made on the wheel being driven.
C6_YearMonthDayOrder ==
    /\ [][op' = "pick_date" =>
            /\ DateRank(wheel') >= DateRank(wheel)
            /\ gestures' > gestures =>
                  /\ last'.gesture.issued = 1
                  /\ last'.gesture.wheel = wheel'
                  /\ wheel' = wheel
                  /\ DateRank(wheel') >= 1]_vars
    /\ [](op = "pick_date" /\ last.gesture.issued > 0 => last.gesture.wheel = wheel)

\* the year wheel was given up after its fallback loop, the month wheel was
\* set, and the fallback loop of the day wheel is scrolling
C6_Witness ==
    /\ op = "pick_date"
    /\ wheel = "day"
    /\ last.kind = "fallback"
    /\ last.gesture.issued = 1
    /\ last.gesture.wheel = "day"
    /\ ~wheel_set["year"]
    /\ wheel_set["month"]

\* C7: pick_date returns True only if the year, month and day wheels were
\* each reported set, pick_time only if the hour, minute and (with a period
\* target) period wheels were; one wheel that failed makes the pick fail.
C7_AllWheelsSet ==
    pick_result = "true" =>
        /\ pc = "done"
        /\ op = "pick_date" => wheel_set["year"] /\ wheel_set["month"] /\ wheel_set["day"]
        /\ op = "pick_time" =>
              /\ wheel_set["hour"]
              /\ wheel_set["minute"]
              /\ using_period => wheel_set["period"]

\* year and month were set, the day wheel was not: the pick returns False
C7_Witness ==
    /\ op = "pick_date"
    /\ pc = "done"
    /\ pick_result = "false"
    /\ wheel = "day"
    /\ wheel_set["year"]
    /\ wheel_set["month"]
    /\ ~wheel_set["day"]

\* C8: pick_time needs 3 wheels with a period target and 2 without, pick_date
\* needs 3; with fewer wheels found the pick returns False and no scroll is
\* made, with enough wheels found (and well-formed targets) it drives the wheels.
C8_RequiredWheels ==
    op \in {"pick_date", "pick_time"} =>
        LET required == IF op = "pick_time" /\ ~using_period THEN 2 ELSE 3
        IN  /\ wheels_found < required =>
                  /\ pc = "done"
                  /\ pick_result = "false"
                  /\ gestures = 0
                  /\ wheel = "none"
                  /\ last = NoIter
            /\ wheels_found >= required /\ format_ok(op, pick_args) => wheel # "none"

\* a time with a period target on a picker with two wheels
C8_Witness ==
    /\ op = "pick_time"
    /\ using_period
    /\ format_ok(op, pick_args)
    /\ wheels_found = 2
    /\ pc = "done"
    /\ pick_result = "false"
    /\ gestures = 0

(***************************************************************************)
(* Properties of split_navigation_steps (checked under SpecText)           *)
(***************************************************************************)
HasSeparator(s) == \E k \in 1..Len(separators) : str_find(s, separators[k]) # 0

Trimmed(s) == s # <<>> /\ Head(s) \notin SpaceChars /\ s[Len(s)] \notin SpaceChars

\* the steps occur in s one after the other, without overlap
RECURSIVE InOrder(_, _)
InOrder(steps, s) ==
    \/ steps = <<>>
    \/ \E i \in 1..(Len(s) - Len(Head(steps)) + 1) :
          /\ SubSeq(s, i, i + Len(Head(steps)) - 1) = Head(steps)
          /\ InOrder(Tail(steps), SubSeq(s, i + Len(Head(steps)), Len(s)))
    \/ (Head(steps) = <<>> /\ InOrder(Tail(steps), s))

C20_StepsTrimmedInOrder ==
    txt_pc = "done" =>
        /\ Len(split_steps) >= 1
        /\ InOrder(split_steps, instruction)
        /\ IF \E i \in 1..Len(split_by(<<instruction>>, 1)) :
                   strip(split_by(<<instruction>>, 1)[i]) # <<>>
           THEN \A i \in 1..Len(split_steps) : Trimmed(split_steps[i])
           ELSE split_steps = <<instruction>>

\* "b then a" gives "b", "a": two steps, trimmed, in the order of the instruction
C20_Witness ==
    /\ txt_pc = "done"
    /\ instruction = <<"b", " ", "t", "h", "e", "n", " ", "a">>
    /\ split_steps = <<(<<"b">>), (<<"a">>)>>

(***************************************************************************)
(* Properties of navigate (checked under SpecNav)                          *)
(***************************************************************************)
\* the last entry of results is what the latest navigate() call returned
LastIsNavigate == Len(results) > 0 /\ Len(navigated) = Len(results)

LastResult == results[Len(results)]

\* C16: navigate always returns a result dict and never raises, whatever the
\* session check, the snapshot fetch, the model call, the JSON parsing and the
\* dispatched action do, and every failure shows as an 'error' entry of the
\* result returned.
C16_FailuresReturnedAsErrors ==
    LastIsNavigate =>
        /\ last_step.returned = "dict"
        /\ last_step.failed => LastResult.error

\* C17: when the model's answer is malformed (not JSON, or JSON of another
\* shape than an object), navigate returns an error result that quotes the
\* raw answer, no UI action is dispatched, and the model was called once.
C17_MalformedAnswerQuoted ==
    (LastIsNavigate /\ last_step.response \in {"invalid", "nondict"}) =>
        /\ LastResult.error
        /\ last_step.raw
        /\ last_step.ui_actions = 0
        /\ last_step.llm_calls = 1

\* what the retry loop has to make of the attempts f: the first attempt among
\* the first three that finds the session dead or reads a source decides
Decisive(f) == {i \in 1..3 : f[i] \in {"ok", "dead"}}

FirstDecisive(f) == CHOOSE i \in Decisive(f) : \A j \in Decisive(f) : i <= j

ExpectSource(f) == Decisive(f) # {} /\ f[FirstDecisive(f)] = "ok"

ExpectReads(f) ==
    IF Decisive(f) = {} THEN 3
    ELSE IF f[FirstDecisive(f)] = "ok" THEN FirstDecisive(f) ELSE FirstDecisive(f) - 1

\* C18: get_page_source_with_retry reads the page source at most 3 times,
\* returns the first non-empty source, and returns None when the attempts
\* are used up or the session check fails; navigate turns a None snapshot
\* into an error result without a call of the model or a UI action.
C18_BoundedSnapshotRetry ==
    (LastIsNavigate /\ last_step.fetch_env # <<>>) =>
        /\ last_step.fetches <= 3
        /\ last_step.fetches = ExpectReads(last_step.fetch_env)
        /\ last_step.llm_calls > 0 <=> ExpectSource(last_step.fetch_env)
        /\ ~ExpectSource(last_step.fetch_env) =>
              /\ LastResult.error
              /\ LastResult.why = "no_page_source"
              /\ last_step.llm_calls = 0
              /\ last_step.ui_actions = 0

\* three reads that give nothing (a fourth would have given a source): the
\* step ends in an error and the model is not asked
C18_Witness ==
    /\ LastIsNavigate
    /\ last_step.fetch_env = <<"empty", "raise", "empty", "ok">>
    /\ last_step.fetches = 3
    /\ LastResult.why = "no_page_source"
    /\ last_step.llm_calls = 0


(***************************************************************************)
(* Properties of ElementFinder.find_element (checked under SpecFind)       *)
(***************************************************************************)
\* the place of a driver query in the order find_element prescribes
QueryRank(name) ==
    CASE name = "exact" -> 1
      [] name = "contains" -> 2
      [] name = "resource_id" -> 3
      [] name = "accessibility_id" -> 4
      [] name = "flexible" -> 5
      [] name = "page_source" -> 6
      [] name = "window_size" -> 7
      [] name = "clickable" -> 8
      [] name = "tap_window_size" -> 9

\* the query that yields the elements of a strategy
QueryOf(via) == IF via = "positional" THEN "clickable" ELSE via

FindReturned == find_pc \in {"done", "clicked"}

\* an element carrying exactly the identifier searched, displayed and enabled
ExactOnScreen ==
    \E i \in 1..Len(screen) :
        /\ screen[i].attr \in text_attrs
        /\ screen[i].str = clean_identifier
        /\ screen[i].vis = "ok"

C12_NeverRaises ==
    /\ found.kind \in {"none", "real", "dummy", "null"}
    /\ FindReturned => found.kind \in {"real", "dummy", "null"}
    /\ FindReturned =>
        \A i \in 1..Len(queries) :
            (queries[i].outcome = "raised" /\ QueryRank(queries[i].name) <= 5) =>
                /\ i < Len(queries)
                /\ QueryRank(queries[i + 1].name) = i + 1
    /\ (FindReturned /\ found.kind # "real" /\ identifier # <<>>) =>
            QueryRank(queries[Len(queries)].name) >= 7

\* the exact query raises and the contains query still returns an element
C12_Witness ==
    /\ find_pc = "done"
    /\ Len(queries) = 2
    /\ queries[1] = [name |-> "exact", outcome |-> "raised"]
    /\ found.kind = "real"
    /\ found.via = "contains"


\* C13: when the identifier has a colon, the target every strategy matches
\* against is the trimmed substring after the first colon
C13_ColonPrefixDropped ==
    (find_pc # "idle" /\ Contains(identifier, <<":">>)) =>
        clean_identifier = split_colon_clean(identifier)


\* no element on screen is selected by any query of the cascade
NothingMatches ==
    /\ \A k \in 1..Len(strategies) : find_elements(strategies[k], screen, clean_identifier, 1) = <<>>
    /\ potential_elements(screen, visible_elements(screen, 1), clean_identifier) = <<>>

\* C14: when nothing on screen matches, the handle returned is the synthetic
\* one and its click() makes one tap and returns without raising
C14_SyntheticTapSucceeds ==
    (find_pc = "clicked" /\ found.kind = "dummy" /\ NothingMatches) =>
        /\ click_outcome = "ok"
        /\ taps = 1

\* C15: an element returned by a standard or popup-scoped strategy (exact,
\* contains, resource-id, accessibility id, flexible, popup) is displayed and
\* enabled; one that is hidden or disabled is never returned by them
C15_OnlyDisplayedEnabled ==
    (found.kind = "real" /\ found.via # "positional") =>
        /\ found.index \in 1..Len(screen)
        /\ screen[found.index].vis = "ok"
        /\ selects(found.via, screen[found.index], clean_identifier)

\* a disabled "S" before "xS": the exact query accepts nothing, the contains
\* query passes over the disabled element and returns the second
C15_Witness ==
    /\ find_pc = "done"
    /\ Len(screen) = 2
    /\ screen[1] = [str |-> TxtS, attr |-> "text", vis |-> "disabled"]
    /\ screen[2].vis = "ok"
    /\ Len(queries) = 2
    /\ queries[1] = [name |-> "exact", outcome |-> "none"]
    /\ found = [kind |-> "real", via |-> "contains", index |-> 2]


(***************************************************************************)
(* Properties of element_parser (checked under SpecParse)                  *)
(***************************************************************************)
Extracted == parse_pc \in {"extracted", "extracted_again"}

\* a node the inventory may list on the platform asked for: of an
\* interactive type, with one of the three attributes 'true', and with an
\* identifier
Listable(node) ==
    /\ IF platform = "android"
       THEN \E i \in 1..Len(android_interactive_types) : android_interactive_types[i] = node.tag
       ELSE \E i \in 1..Len(ios_interactive_types) : ios_interactive_types[i] = node.type
    /\ "true" \in {node.flags.enabled, node.flags.visible, node.flags.displayed}
    /\ node.name # <<>> \/ node.label # <<>>

C22_OnlyAvailableListed ==
    Extracted =>
        \A i \in 1..Len(inventory.lines) :
            \E k \in 1..Len(page_source.nodes) :
                /\ Listable(page_source.nodes[k])
                /\ inventory.lines[i] =
                        <<IF page_source.nodes[k].type = "absent"
                          THEN page_source.nodes[k].tag ELSE page_source.nodes[k].type>>
                        \o <<":", " ">>
                        \o (IF page_source.nodes[k].name # <<>>
                            THEN page_source.nodes[k].name ELSE page_source.nodes[k].label)

\* a named button with none of the three attributes before a cell that is
\* displayed: only the cell is listed
C22_Witness ==
    /\ parse_pc = "extracted"
    /\ platform = "ios"
    /\ Len(page_source.nodes) = 2
    /\ page_source.nodes[1].type = "XCUIElementTypeButton"
    /\ page_source.nodes[1].name = <<"a">>
    /\ page_source.nodes[1].flags.enabled = "absent"
    /\ page_source.nodes[1].flags.displayed = "absent"
    /\ page_source.nodes[1].flags.visible = "absent"
    /\ page_source.nodes[2].flags.displayed = "true"
    /\ inventory.lines = <<(<<"XCUIElementTypeCell", ":", " ", "b">>)>>

\* C23: extract_available_elements returns on every snapshot: the parse-error
\* message when the snapshot does not parse, the no-elements message when no
\* node can be listed, and a non-empty list otherwise
C23_ExtractNeverRaises ==
    Extracted =>
        /\ inventory.kind \in {"list", "none_found", "parse_error"}
        /\ inventory.kind = "parse_error" <=> ~page_source.wellformed
        /\ inventory.kind = "none_found" <=>
                /\ page_source.wellformed
                /\ \A k \in 1..Len(page_source.nodes) : ~Listable(page_source.nodes[k])
        /\ inventory.kind = "list" <=> inventory.lines # <<>>

C23_Witness ==
    /\ parse_pc = "extracted"
    /\ ~page_source.wellformed
    /\ inventory.kind = "parse_error"


\* the node detect_popup_state takes the bounds from
HasTyped(part) ==
    \E k \in 1..Len(page_source.nodes) : Contains(page_source.nodes[k].type, part)

\* C24: a snapshot with a node whose type contains 'Alert' is reported as a
\* popup, of type 'action_sheet' when an ActionSheet node is present, else
\* 'dialog' when a Dialog node is present, else 'alert'
C24_PopupClassified ==
    (parse_pc = "detected" /\ page_source.wellformed /\ HasTyped(StrAlert)) =>
        /\ popup_state.has_popup
        /\ popup_state.popup_type =
                IF HasTyped(StrActionSheet) THEN "action_sheet"
                ELSE IF HasTyped(StrDialog)
                        \/ \E k \in 1..Len(page_source.nodes) :
                                page_source.nodes[k].tag = "android.app.Dialog"
                THEN "dialog"
                ELSE "alert"

\* C25: the bounds reported for a popup whose bounds string is
\* "[10,20][110,220]" or whose frame string is "{{10, 20}, {100, 200}}" are
\* x 10, y 20, width 100, height 200
C25_BoundsParsed ==
    (/\ parse_pc = "detected"
     /\ Len(page_source.nodes) = 1
     /\ page_source.nodes[1].type = StrAlert
     /\ page_source.nodes[1].bounds # <<>> \/ page_source.nodes[1].frame # <<>>) =>
        popup_state.bounds = [parsed |-> TRUE, x |-> 10, y |-> 20, width |-> 100, height |-> 200]


(***************************************************************************)
(* Properties of confirm_selection / cancel_selection (under SpecButton)   *)
(***************************************************************************)
\* a button one of the strategies of the call looks for
ButtonSought(btn) ==
    \/ \E k \in 1..Len(lookup_steps(btn_op)) : lookup_steps(btn_op)[k].text = btn.label
    \/ \E text \in scan_texts(btn_op) : Contains(lower(btn.label), text)

\* C26: the call returns True or False and never raises; the accessibility-id
\* lookup comes first and the scan of all buttons last; True is returned
\* exactly when a click succeeded, that click is the last one made and the
\* only one that succeeded, and only buttons the call looks for are clicked;
\* False is returned, with no click, when no such button is on screen
C26_FirstMatchWins ==
    btn_pc = "done" =>
        /\ btn_result \in {"true", "false"}
        /\ lookups # <<>> /\ lookups[1] = "accessibility_id"
        /\ \A i \in 1..Len(lookups) : lookups[i] = "all_buttons" => i = Len(lookups)
        /\ btn_result = "true" <=> (clicks # <<>> /\ clicks[Len(clicks)].ok)
        /\ \A i \in 1..Len(clicks) :
            /\ clicks[i].ok => i = Len(clicks)
            /\ ButtonSought(buttons[clicks[i].index])
        /\ (\A k \in 1..Len(buttons) : ~ButtonSought(buttons[k])) =>
                (btn_result = "false" /\ clicks = <<>>)

\* "Book" and "Done" on screen with the lookup of "Done" failing: the scan
\* clicks "Book", the first button that matches, and "Done" is left alone
C26_Witness ==
    /\ btn_pc = "done"
    /\ btn_op = "confirm"
    /\ Len(buttons) = 2
    /\ buttons[1] = [label |-> StrBook, state |-> "ok"]
    /\ buttons[2] = [label |-> StrDone, state |-> "ok"]
    /\ clicks = <<[index |-> 1, ok |-> TRUE]>>
    /\ lookups[Len(lookups)] = "all_buttons"
    /\ btn_result = "true"


C28_MicroModeEveryClass ==
    (last.kind = "scroll" /\ last.distance <= 1) => last.micro

\* C28: on the year wheel a scroll made at distance at most 1 is made in
\* micro-adjustment mode; on the other wheels the mode is never entered
C28_MicroModeYearOnly ==
    /\ (last.kind = "scroll" /\ value_type = "year" /\ last.distance <= 1) =>
            (last.micro /\ using_micro_adjustment)
    /\ value_type # "year" => (~using_micro_adjustment /\ ~last.micro)

\* 2022 read on the year wheel driven to 2023: the first micro-adjustment
C28_Witness ==
    /\ last.kind = "scroll"
    /\ value_type = "year"
    /\ last.read.value = Str2022
    /\ last.distance = 1
    /\ last.micro
    /\ last.micro_steps = 1

\* C29 as stated: the escape step is the 8th, 16th, ... micro-adjustment of a
\* call, and the steps in between never grow
C29_EscapeEvery8th ==
    (last.kind = "scroll" /\ last.micro) =>
        /\ last.gesture.factor = 80 <=> last.micro_steps % 8 = 0
        /\ (last.gesture.factor # 80 /\ last.prev_micro_factor \notin {0, 80}) =>
                last.gesture.factor <= last.prev_micro_factor

\* C29: the escape step is the 9th, 18th, ... micro-adjustment of a call (it
\* follows 8 small steps), and the small steps between two escapes never grow
C29_EscapeEvery9th ==
    (last.kind = "scroll" /\ last.micro) =>
        /\ last.gesture.factor = 80 <=> last.micro_steps % 9 = 0
        /\ (last.gesture.factor # 80 /\ last.prev_micro_factor \notin {0, 80}) =>
                last.gesture.factor <= last.prev_micro_factor

\* the second escape step of a call
C29_Witness ==
    /\ last.kind = "scroll"
    /\ last.micro
    /\ last.micro_steps = 18
    /\ last.gesture.factor = 80
    /\ last.prev_micro_factor = 25

\* C30 as stated: in every value class a scroll made without a readable value
\* goes up on even attempts and down on odd ones
C30_BlindAlternatesEveryClass ==
    last.kind = "blind" =>
        /\ last.gesture.issued = 1
        /\ last.gesture.direction = IF (attempts - 1) % 2 = 0 THEN "up" ELSE "down"

\* C30: a scroll made without a readable value goes up on even attempts and
\* down on odd ones when the read failed or the wheel is not the year wheel;
\* on the year wheel an empty value is answered by a scroll up when the
\* target is above 2020 and down otherwise, whatever the attempt
C30_BlindAlternatesButYear ==
    last.kind = "blind" =>
        /\ last.gesture.issued = 1
        /\ last.gesture.factor = 100
        /\ last.gesture.direction =
                IF value_type = "year" /\ ~last.read.raises
                THEN (IF target_key_of(target_value, value_type) > 2020 THEN "up" ELSE "down")
                ELSE (IF (attempts - 1) % 2 = 0 THEN "up" ELSE "down")

\* the day wheel returns no value on the second attempt: a scroll down
C30_Witness ==
    /\ last.kind = "blind"
    /\ value_type = "day"
    /\ ~last.read.raises
    /\ attempts = 2
    /\ last.gesture.direction = "down"

\* C31 as stated: the fallback loop of every wheel has an iteration bound
\* between 12 and 30
C31_FallbackBound12to30 ==
    pc = "fallback" => fallback_limit(wheel) \in 12..30

\* C31: the fallback loop of a wheel is bounded: at most 5 passes on the year
\* wheel and between 12 and 30 on the month, day, hour and minute wheels
C31_FallbackBounded ==
    pc = "fallback" =>
        /\ fallback_i < fallback_limit(wheel)
        /\ fallback_limit(wheel) \in (IF wheel = "year" THEN {5} ELSE 12..30)

\* the fifth and last pass of the year wheel's fallback loop is due
C31_Witness ==
    /\ pc = "fallback"
    /\ wheel = "year"
    /\ last.kind = "fallback"
    /\ fallback_i = 4

\* C32: the accessibility-id lookup is made before any contains query, so an
\* element that the accessibility-id lookup would return is never passed over
\* for one found by a contains query
C32_AccessibilityIdInExactTier ==
    /\ \A i \in 1..Len(queries), j \in 1..Len(queries) :
            (queries[i].name = "contains" /\ queries[j].name = "accessibility_id") => j < i
    /\ (found.kind = "real" /\ found.via = "contains"
            /\ screen[found.index].str # clean_identifier) =>
            try_strategy("accessibility_id", screen, clean_identifier, FALSE).outcome # "accepted"

\* the snapshot shows a popup: some node is a descendant of an alert, dialog
\* or action-sheet node
popup_on_screen(scr) == \E i \in 1..Len(scr) : scr[i].attr = "popup_text"

\* C33: when the standard strategies found nothing and the snapshot contains
\* a popup, the popup-scoped search is run before the positional fallback,
\* and the element it accepts is the one returned
C33_PopupSearchBeforePositional ==
    (find_pc \in {"positional", "done", "clicked"} /\ Len(queries) > Len(strategies)
        /\ popup_on_screen(screen)) =>
        /\ Len(queries) > Len(strategies) + 1
        /\ queries[Len(strategies) + 2].name = "popup_exact"
        /\ find_element_in_popup(screen, clean_identifier, FALSE).outcome = "accepted" =>
                (find_pc # "positional" /\ found.via = "popup")

\* C34: every separator of the list is effective: an instruction made of a
\* step, one separator and a second step comes back as exactly the two steps,
\* with nothing of the separator left attached
C34_EverySeparatorEffective ==
    txt_pc = "done" =>
        \A k \in 1..Len(separators) :
            instruction = <<"a">> \o separators[k] \o <<"b">> =>
                split_steps = << <<"a">>, <<"b">> >>

C36_PickerResultReported ==
    (LastIsNavigate /\ last_step.picker # "not_called" /\ last_step.response = "dict") =>
        (LastResult.error <=> last_step.picker = "failed")

\* the factors of the micro-adjustment mode: 0.5, 0.35, 0.25 and the 0.8 escape
micro_factors == {50, 35, 25, 80}

\* C37 as stated: once micro-adjustment mode was entered in a call, the mode
\* stays on and every later scroll of the call uses a micro-adjustment factor
C37_MicroModeEveryScroll ==
    (pc \in {"loop", "final"} /\ last.micro_steps > 0) =>
        /\ using_micro_adjustment
        /\ last.gesture.issued = 1 => last.gesture.factor \in micro_factors

\* C37: once micro-adjustment mode was entered in a call, the mode stays on;
\* every later scroll made from a value that was read uses the
\* micro-adjustment factor of its rank (0.5, 0.35, 0.25 or the 0.8 escape),
\* whatever the distance and whether or not an oscillation was detected; a
\* scroll made without a readable value keeps the factor 1.0
C37_MicroModeSticky ==
    (pc \in {"loop", "final"} /\ last.micro_steps > 0) =>
        /\ using_micro_adjustment
        /\ last.kind = "scroll" =>
            /\ last.micro
            /\ last.gesture.factor \in micro_factors
            /\ last.gesture.factor = IF micro_adjustment_count = 0 THEN 80
                                     ELSE micro_factor(micro_adjustment_count)
        /\ last.kind = "blind" => last.gesture.factor = blind_factor

\* in micro-adjustment mode the year wheel is read further than one unit
\* from the target while an oscillation is detected: the scroll still has
\* the micro-adjustment factor of its rank
C37_Witness ==
    /\ pc = "loop"
    /\ last.kind = "scroll"
    /\ last.micro_steps >= 3
    /\ last.distance > 1
    /\ last.oscillation
    /\ last.gesture.factor = 35

\* C40: 'AM' and 'PM' both convert to the key 0, so on the period wheel every
\* scroll made from a value that was read and is not the target goes down,
\* with the same step each time, and never up, whichever period is the target
C40_PeriodAlwaysDown ==
    /\ to_key(StrAM) = 0
    /\ to_key(StrPM) = 0
    /\ (value_type = "period" /\ last.kind = "scroll") =>
        /\ target_key = 0
        /\ last.current_key = 0
        /\ last.distance = 0
        /\ last.gesture.issued = 1
        /\ last.gesture.direction = "down"
        /\ last.gesture.factor = 50

\* the target is AM and the wheel has shown pm five times: the fifth scroll,
\* made with an oscillation detected, goes down like the others
C40_Witness ==
    /\ value_type = "period"
    /\ target_value = StrAM
    /\ last.kind = "scroll"
    /\ last.read.value = Strpm
    /\ last.oscillation
    /\ attempts = 5
    /\ gestures = 5
    /\ last.gesture.direction = "down"

\* C38: in a fallback loop the wheel is read once per iteration, before the
\* scroll of that iteration; an iteration whose read equals the target
\* scrolls nothing, marks the wheel as set and ends the loop; an iteration
\* that scrolled leaves the wheel marked as not set, also when it was the
\* last one, after which the wheel is not read again
C38_FallbackReadsBeforeScroll ==
    last.kind = "fallback" =>
        /\ wheel_set[wheel] <=> fallback_read_matches(wheel, target_value, last.read)
        /\ wheel_set[wheel] => (last.gesture.issued = 0 /\ pc \in {"advance", "done"})
        /\ last.gesture.issued = 1 =>
            /\ ~wheel_set[wheel]
            /\ ~fallback_read_matches(wheel, target_value, last.read)
            /\ pc = "fallback" <=> fallback_i < fallback_limit(wheel)
        /\ (pc = "advance" /\ ~wheel_set[wheel]) =>
            (fallback_i = fallback_limit(wheel) /\ last.gesture.issued = 1)

\* the fifth pass over the year wheel scrolled and the loop is over: the
\* wheel counts as not set and the next wheel is due
C38_Witness ==
    /\ last.kind = "fallback"
    /\ wheel = "year"
    /\ pc = "advance"
    /\ fallback_i = 5
    /\ last.gesture.issued = 1
    /\ ~wheel_set["year"]

\* the gestures one wheel may receive after the 25 of select_value_fast
fallback_gestures(w) ==
    CASE w = "year" -> 5
      [] w = "month" -> 12
      [] w = "day" -> 15
      [] w = "hour" -> 12
      [] w = "minute" -> 30
      [] w = "period" -> 1
      [] OTHER -> 0

\* the guards of the steps of pick_date / pick_time: what has not returned
\* has a next statement to run
pick_can_step ==
    \/ pc = "loop" /\ attempts < max_attempts
    \/ pc = "fallback" /\ fallback_i < fallback_limit(wheel)
    \/ pc \in {"final", "returned", "period_toggle", "advance"}

\* the gestures of the current wheel stay within 25 plus its fallback
\* allowance, a pick that has not returned can take a step, and a pick that
\* returned after finding its wheels, without a read raising in a fallback,
\* has gone through all its wheels
PickBounded ==
    op \in {"pick_date", "pick_time"} =>
        /\ attempts <= max_attempts
        /\ gestures <= max_attempts + fallback_gestures(wheel)
        /\ pc = "done" \/ pick_can_step
        /\ (pc = "done" /\ wheel # "none" /\ pick_result # "raised") =>
                next_wheel(op, wheel, using_period /\ wheels_found >= 3) = "none"

\* the wheels still to come after wheel w
wheels_left(w) ==
    CASE w \in {"year", "hour"} -> 2
      [] w \in {"month", "minute"} -> 1
      [] w \in {"day", "period"} -> 0
      [] OTHER -> 3

\* a number that every step of pick_date / pick_time makes smaller: the
\* wheels to come weigh more than anything left to do on the current wheel
PickMeasure ==
    CASE pc = "idle" -> 1000
      [] pc = "done" -> 0
      [] pc = "loop" -> 100 * wheels_left(wheel) + 41 + (max_attempts - attempts)
      [] pc = "final" -> 100 * wheels_left(wheel) + 40
      [] pc = "returned" -> 100 * wheels_left(wheel) + 39
      [] pc = "fallback" -> 100 * wheels_left(wheel) + 38 - fallback_i
      [] pc = "period_toggle" -> 100 * wheels_left(wheel) + 4
      [] pc = "advance" -> 100 * wheels_left(wheel) + 3

\* C39: pick_date and pick_time always terminate; a wheel that could not be
\* set does not keep the later wheels from being tried; a wheel receives at
\* most 25 + 5 (year), 25 + 12 (month), 25 + 15 (day), 25 + 12 (hour),
\* 25 + 30 (minute) and 25 + 1 (period) gestures
C39_PickTerminatesBounded ==
    /\ []PickBounded
    /\ [](PickMeasure >= 0)
    /\ [][PickMeasure' < PickMeasure]_vars

\* pick_time has returned False after the hour wheel could not be set and
\* the minute wheel took all its 25 + 30 gestures
C39_Witness ==
    /\ op = "pick_time"
    /\ pc = "done"
    /\ pick_result = "false"
    /\ wheel = "minute"
    /\ ~wheel_set["hour"]
    /\ gestures = 55

====
